---- MODULE Spec2Model ----
(***************************************************************************)
(* A model of install.py, the bootstrap orchestrator of the backup system: *)
(* BackupSystemInstaller.run_installer and the functions it drives.        *)
(*                                                                         *)
(* Conventions.                                                            *)
(*  - A Python dict is a function whose DOMAIN is its key set; the empty   *)
(*    dict {} is EmptyDict, and a dict is truthy iff its DOMAIN is not     *)
(*    empty.                                                               *)
(*  - A command run through run_command either succeeds or exits non-zero  *)
(*    (subprocess.CalledProcessError when check=True).  The outcome of     *)
(*    each command is an input of the action that runs it.                 *)
(*  - A function result is a record [ret, raised]: raised is TRUE when a   *)
(*    CalledProcessError leaves the function instead of a return value.    *)
(*  - An exception that leaves run_installer reaches main(), which prints  *)
(*    "Installation failed" and exits with code 1.                         *)
(***************************************************************************)
EXTENDS Integers, Sequences, FiniteSets, TLC

VARIABLES
    pc,                \* position of the single thread of control
    exit_code,         \* process exit code, -1 while the process runs
    is_root,           \* BackupSystemInstaller.is_root
    package_manager,   \* BackupSystemInstaller.package_manager
    firewall_manager,  \* BackupSystemInstaller.firewall_manager
    HAS_YAML,          \* module flag HAS_YAML
    HAS_REQUESTS,      \* module flag HAS_REQUESTS
    existing,          \* run_installer: existing = check_existing_services()
    influxdb_config,   \* run_installer: influxdb_config
    grafana_installed, \* run_installer: grafana_installed
    backup_config,     \* run_installer: backup_config (EmptyDict until returned)
    config,            \* setup_backup_config: the document under construction
    is_btrfs,          \* setup_backup_config: is_btrfs
    hostname,          \* setup_hosts_config: hostname of the host being entered
    host_config,       \* setup_hosts_config: host_config being entered
    i,                 \* number of probes made by the running polling loop
    out,               \* messages printed so far, as a set: those that carry a
                       \* field of the metrics-store configuration, the
                       \* reports of a failed stage and the final header
    calls,             \* the stage functions run_installer has called, in order
    history,           \* facts about the run that the program does not store
    files,             \* files under /etc/backup written by save_configurations
    backend,           \* result of the backend call made last (backend harness)
    cap                \* how many loop entries the operator makes at most

vars == <<pc, exit_code, is_root, package_manager, firewall_manager, HAS_YAML,
          HAS_REQUESTS, existing, influxdb_config, grafana_installed,
          backup_config, config, is_btrfs, hostname, host_config, i, out,
          calls, history, files, backend, cap>>

envVars == <<is_root, package_manager, firewall_manager>>
flagVars == <<HAS_YAML, HAS_REQUESTS>>
elicitVars == <<config, is_btrfs, hostname, host_config>>

-----------------------------------------------------------------------------
(* Bounds of the model.                                                    *)

\* When the dialogue is explored in depth (SpecElicit): the host entries the
\* operator makes, the backup paths entered per host, and the custom snapshot
\* schedules entered, at most
MaxHostEntries == 2
MaxPaths == 2
MaxSchedules == 2

\* the dialogue explored in depth
\* The dialogue on its own (SpecElicit) is explored in depth along one axis
\* at a time: a long host dialogue with no custom schedule, or a long
\* schedule dialogue with one host entry of at most one path.
DeepCap == {[hosts |-> MaxHostEntries, paths |-> MaxPaths, schedules |-> 0],
            [hosts |-> 1, paths |-> 1, schedules |-> MaxSchedules]}
\* A full run (Spec) is explored on every environment and every outcome of
\* the stages, with a short dialogue: one host entry with at most one path
\* and no custom schedule.  What depends on the length of the dialogue is
\* checked under SpecElicit.
ShallowCap == [hosts |-> 1, paths |-> 1, schedules |-> 0]

-----------------------------------------------------------------------------
(* Program constants.                                                      *)

\* for i in range(30): the readiness polling loops
PollAttempts == 30

PackageManagers == {"apt", "dnf", "zypper", "pacman", "yum", "unknown"}
FirewallManagers == {"ufw", "firewalld", "iptables", "none"}

\* the hosts a full run is explored on: every package manager and every
\* firewall manager, each in one pairing
Platforms ==
    {<<"apt", "ufw">>, <<"dnf", "firewalld">>, <<"yum", "iptables">>,
     <<"zypper", "firewalld">>, <<"pacman", "iptables">>, <<"unknown", "none">>}

-----------------------------------------------------------------------------
(* Python dicts.                                                           *)

EmptyDict == <<>>
Truthy(d) == DOMAIN d # {}
HasKey(d, k) == k \in DOMAIN d
Put(d, k, v) == [x \in DOMAIN d \cup {k} |-> IF x = k THEN v ELSE d[x]]
Del(d, k) == [x \in DOMAIN d \ {k} |-> d[x]]

Called(f) == \E k \in DOMAIN calls : calls[k] = f
Msg(level, text, value) == <<level, text, value>>

-----------------------------------------------------------------------------
(* Operator input.                                                         *)

\* what the operator may type at a yes/no prompt
YesNoAnswers == {"", "y", " Yes ", "n", "no", "maybe"}

\* str.strip().lower() on the answers above
StripLower(s) ==
    CASE s = " Yes " -> "yes"
      [] OTHER -> s

\* ask_yes_no(question, default) on the raw answer typed
AskYesNo(answer, default) ==
    LET response == StripLower(answer)
    IN IF response = "" THEN default
       ELSE response \in {"y", "yes", "true", "1"}

\* str.strip() on the free-text answers the model uses
Strip(s) ==
    CASE s = " " -> ""
      [] s = " 3 " -> "3"
      [] s = " web1 " -> "web1"
      [] OTHER -> s

\* variant of AskInput: the question is asked once, with or without default
AskInputOnce(answers, default) ==
    LET response == Strip(Head(answers))
    IN IF response # "" THEN response ELSE default

\* ask_input(question, default) on the raw answers typed, in order; without a
\* default the prompt is repeated until an answer is not empty
RECURSIVE AskInput(_, _)
AskInput(answers, default) ==
    LET response == Strip(Head(answers))
    IN IF default # ""
       THEN IF response # "" THEN response ELSE default
       ELSE IF response # "" THEN response
            ELSE AskInput(Tail(answers), default)

-----------------------------------------------------------------------------
(* Backend abstraction: commands, packages, firewall.                      *)

Returned(v) == [ret |-> v, raised |-> FALSE]
Raised == [ret |-> FALSE, raised |-> TRUE]

\* str(port) and f'{port}/tcp'
PortStr(port) ==
    CASE port = 8086 -> "8086"
      [] port = 3000 -> "3000"
      [] OTHER -> "0"
PortTcp(port) ==
    CASE port = 8086 -> "8086/tcp"
      [] port = 3000 -> "3000/tcp"
      [] OTHER -> "0/tcp"

\* variant of Executed: a failing command does not keep the later ones from
\* being started
ExecutedAll(cmds, failing) == cmds

\* run_command(cmd) with check=True on each command of cmds in turn: the
\* commands that are started, the first failing one being the last
RECURSIVE Executed(_, _)
Executed(cmds, failing) ==
    IF cmds = <<>> THEN <<>>
    ELSE IF Head(cmds) \in failing THEN <<Head(cmds)>>
    ELSE <<Head(cmds)>> \o Executed(Tail(cmds), failing)

AllSucceed(cmds, failing) == \A k \in DOMAIN cmds : cmds[k] \notin failing

\* install_packages(packages): updateOk and installOk are the outcomes of
\* 'apt update' (run before the try block) and of the install command
InstallPackages(root, manager, updateOk, installOk) ==
    IF ~root THEN Returned(FALSE)
    ELSE IF manager = "apt"
         THEN IF ~updateOk THEN Raised ELSE Returned(installOk)
    ELSE IF manager \in {"dnf", "zypper", "pacman", "yum"}
         THEN Returned(installOk)
    ELSE Returned(FALSE)

\* the argv lists configure_firewall builds, per variant
UfwCommands(ports, services) ==
    [k \in DOMAIN ports |-> <<"ufw", "allow", PortStr(ports[k])>>]
    \o [k \in DOMAIN services |-> <<"ufw", "allow", services[k]>>]
FirewalldRules(ports, services) ==
    [k \in DOMAIN ports |->
        <<"firewall-cmd", "--permanent", "--add-port", PortTcp(ports[k])>>]
    \o [k \in DOMAIN services |->
        <<"firewall-cmd", "--permanent", "--add-service", services[k]>>]
FirewalldReload == <<"firewall-cmd", "--reload">>
IptablesCommands(ports) ==
    [k \in DOMAIN ports |->
        <<"iptables", "-A", "INPUT", "-p", "tcp", "--dport",
          PortStr(ports[k]), "-j", "ACCEPT">>]
IptablesSave == <<"iptables-save">>

\* configure_firewall(ports, services): failing is the set of commands
\* that exit non-zero, hasSave is shutil.which('iptables-save').  The
\* result carries the commands that were started, in order.
ConfigureFirewall(root, manager, ports, services, failing, hasSave) ==
    IF ~root THEN [ret |-> FALSE, raised |-> FALSE, issued |-> <<>>]
    ELSE IF manager = "ufw"
         THEN LET cmds == UfwCommands(ports, services)
              IN [ret |-> AllSucceed(cmds, failing), raised |-> FALSE,
                  issued |-> Executed(cmds, failing)]
    ELSE IF manager = "firewalld"
         THEN LET cmds == FirewalldRules(ports, services) \o <<FirewalldReload>>
              IN [ret |-> AllSucceed(cmds, failing), raised |-> FALSE,
                  issued |-> Executed(cmds, failing)]
    ELSE IF manager = "iptables"
         THEN LET cmds == IptablesCommands(ports)
                  done == AllSucceed(cmds, failing)
              IN [ret |-> done, raised |-> FALSE,
                  issued |-> Executed(cmds, failing) \o
                             (IF done /\ hasSave THEN <<IptablesSave>> ELSE <<>>)]
    ELSE [ret |-> FALSE, raised |-> FALSE, issued |-> <<>>]

\* every command configure_firewall can start for this manager and these
\* arguments
FirewallCommands(manager, ports, services) ==
    LET all == CASE manager = "ufw" -> UfwCommands(ports, services)
                 [] manager = "firewalld" ->
                        FirewalldRules(ports, services) \o <<FirewalldReload>>
                 [] manager = "iptables" ->
                        IptablesCommands(ports) \o <<IptablesSave>>
                 [] OTHER -> <<>>
    IN {all[k] : k \in DOMAIN all}

\* install_dependencies(): the result and the flags it leaves.  pipOk is
\* the outcome of 'pip3 install'.
InstallDependencies(root, manager, hasYaml, hasRequests, updateOk, installOk, pipOk, yamlOk, requestsOk) ==
    LET unchanged(r) == [ret |-> r, raised |-> FALSE, yaml |-> hasYaml,
                         requests |-> hasRequests]
    IN IF root /\ InstallPackages(root, manager, updateOk, installOk).raised
       THEN unchanged(FALSE)
       ELSE IF ~hasYaml \/ ~hasRequests
            THEN IF ~pipOk THEN unchanged(FALSE)
                 \* lines 811-816: 'import yaml' and 'import requests', each
                 \* for a module that was missing; an ImportError is not
                 \* caught by the handlers of lines 818 and 824
                 ELSE IF ~hasYaml /\ ~yamlOk
                 THEN [ret |-> FALSE, raised |-> TRUE, yaml |-> FALSE,
                       requests |-> hasRequests]
                 ELSE IF ~hasRequests /\ ~requestsOk
                 THEN [ret |-> FALSE, raised |-> TRUE, yaml |-> TRUE,
                       requests |-> FALSE]
                 ELSE [ret |-> TRUE, raised |-> FALSE, yaml |-> TRUE,
                       requests |-> TRUE]
            ELSE unchanged(TRUE)

\* install_influxdb(): repoOk is the outcome of the repository registration
\* (key download, source entry and index refresh; repo file; or addrepo)
InstallInfluxdb(root, manager, repoOk, updateOk, installOk) ==
    IF manager = "apt"
    THEN IF ~repoOk THEN FALSE
         ELSE LET r == InstallPackages(root, manager, updateOk, installOk)
              IN IF r.raised THEN FALSE ELSE r.ret
    ELSE IF manager \in {"dnf", "yum", "zypper"}
         THEN IF ~repoOk THEN FALSE
              ELSE InstallPackages(root, manager, updateOk, installOk).ret
    ELSE FALSE

\* install_grafana(): as install_influxdb, without the version question
InstallGrafana(root, manager, repoOk, updateOk, installOk) ==
    IF manager = "apt"
    THEN IF ~repoOk THEN FALSE
         ELSE LET r == InstallPackages(root, manager, updateOk, installOk)
              IN IF r.raised THEN FALSE ELSE r.ret
    ELSE IF manager \in {"dnf", "yum", "zypper"}
         THEN IF ~repoOk THEN FALSE
              ELSE InstallPackages(root, manager, updateOk, installOk).ret
    ELSE FALSE

-----------------------------------------------------------------------------
(* Values the environment and the operator supply.                         *)

\* what check_existing_services can find, as <<influxdb, influxdb_port,
\* grafana, grafana_port>>: nothing; for either service the unit active and
\* the port open, the unit active alone, or the port open alone; and both
\* services found, fully or by one sign each
ServiceStates ==
    {[influxdb |-> t[1], influxdb_port |-> t[2], grafana |-> t[3],
      grafana_port |-> t[4]] :
        t \in {<<FALSE, FALSE, FALSE, FALSE>>,
               <<TRUE, TRUE, FALSE, FALSE>>, <<TRUE, FALSE, FALSE, FALSE>>,
               <<FALSE, TRUE, FALSE, FALSE>>,
               <<FALSE, FALSE, TRUE, TRUE>>, <<FALSE, FALSE, TRUE, FALSE>>,
               <<FALSE, FALSE, FALSE, TRUE>>,
               <<TRUE, TRUE, TRUE, TRUE>>, <<FALSE, TRUE, TRUE, FALSE>>}}

\* result['auth']['token'] of a 201 answer of POST /api/v2/setup
MintedToken == "tok-minted"
\* what the operator types at a token prompt (a required field)
TokenAnswers == {<<"tok-operator">>, <<"", "tok-operator">>}
\* what the operator types for organization and bucket (defaults home, backup)
OrgAnswers == {<<"">>}
BucketAnswers == {<<"">>}

\* GET /api/v2/setup: 200 with allowed true, 200 with allowed false, another
\* status code, or a requests.RequestException
SetupStatus == {"allowed", "configured", "error_status", "network_error"}
\* POST /api/v2/setup: 201, another status code, or a RequestException
SetupPost == {"201", "error_status", "network_error"}

\* the dict setup_influxdb and run_installer build for a metrics store
InfluxConfig(token, org, bucket) ==
    [host |-> "localhost", port |-> "8086", token |-> token,
     organization |-> org, bucket |-> bucket]

NoHistory ==
    [stage |-> "start",        \* the stage of run_installer entered last
     uncaught |-> "",          \* the exception main() caught, if any
     influx_timeout |-> 0,     \* probes made by a setup_influxdb that timed out
     grafana_timeout |-> 0,    \* probes made by a setup_grafana that timed out
     opted_in |-> "unasked",   \* the answer to 'Configure BTRFS snapshots?'
     entries |-> 0,            \* host entries committed so far
     latest |-> EmptyDict,     \* per identifier, the host_config entered last
     saved |-> "uncalled",     \* what save_configurations returned
     overwrote |-> FALSE,      \* the last commit replaced a different entry
     setup |-> "uncalled",     \* what GET /api/v2/setup said: "closed", "open"
     api |-> <<>>,             \* the requests setup_influxdb sent, in order
     post |-> "unsent",        \* what POST /api/v2/setup answered
     interrupt |-> "none",     \* an operator interrupt: "swallowed", "caught",
                               \* "uncaught"
     without |-> "unasked",    \* the answer to 'Continue without snapshots?'
     dashboard_now |-> "unknown",  \* the dashboard server, "up" or "down", at
                               \* the time the dashboard stage begins
     attempted |-> {},         \* what the script/service stage set out to
                               \* write: "scripts", "unit", "timer"
     declined |-> FALSE,       \* 'Install missing dependencies now?' was
                               \* answered no
     policy |-> "unasked",     \* 'Use default snapshot schedule?': "default"
                               \* or "custom"
     asked |-> <<>>,           \* the custom schedules as entered: type, count
                               \* and hours, each as ask_input returned it
     lists |-> <<>>,           \* host name -> what the list object holds
                               \* that its committed entry refers to
     current |-> <<>>,         \* what the list object holds that
                               \* host_config['paths'] refers to
     sharers |-> {},           \* the committed hosts whose entry refers to
                               \* the same list object as host_config
     typed |-> <<>>,           \* the paths entered for the host in progress
     typed_for |-> <<>>,       \* host name -> the paths entered for its
                               \* committed entry
     imported |-> {}]          \* the libraries the dependency check has just
                               \* had installed and imported; forgotten when
                               \* the next stage is entered

NoBackend ==
    [call |-> "none", ports |-> <<>>, services |-> <<>>, failing |-> {},
     ret |-> FALSE, raised |-> FALSE, issued |-> <<>>]

-----------------------------------------------------------------------------
(* The process: main() and run_installer().                                *)

Init ==
    /\ pc = "start"
    /\ exit_code = -1
    /\ is_root \in BOOLEAN
    /\ \E platform \in Platforms :
          package_manager = platform[1] /\ firewall_manager = platform[2]
    /\ HAS_YAML \in BOOLEAN
    /\ HAS_REQUESTS \in BOOLEAN
    /\ existing = EmptyDict
    /\ influxdb_config = EmptyDict
    /\ grafana_installed = FALSE
    /\ backup_config = EmptyDict
    /\ config = EmptyDict
    /\ is_btrfs = FALSE
    /\ hostname = ""
    /\ host_config = EmptyDict
    /\ i = 0
    /\ out = {}
    /\ calls = <<>>
    /\ history = NoHistory
    /\ files = EmptyDict
    /\ backend = NoBackend
    /\ cap = ShallowCap

\* the run enters a stage of run_installer
Enter(stage) == [history EXCEPT !.stage = stage]

\* sys.exit(code)
Exit(code) == pc' = "exited" /\ exit_code' = code

\* an exception leaves run_installer: main() reports it and exits with 1
RaiseToMain(exc, printed, past) ==
    /\ Exit(1)
    /\ out' = printed \cup {Msg("error", "Installation failed", exc)}
    /\ history' = [past EXCEPT !.uncaught = exc]

\* variant of DependencyOutcome: a run goes on without the dependencies the
\* operator declined to install
DependencyOutcomeLenient(accepted, installed) ==
    IF accepted /\ ~installed THEN "exit" ELSE "continue"
\* variant of DependencyOutcome: the run goes on whatever
\* install_dependencies returned
DependencyOutcomeTrusting(accepted, installed) ==
    IF accepted THEN "continue" ELSE "exit"
\* run_installer, lines 859-866: with a dependency missing the run goes on
\* only if the operator accepts the installation and it succeeds
DependencyOutcome(accepted, installed) ==
    IF accepted /\ installed THEN "continue" ELSE "exit"

\* run_installer, lines 851-868: the check of the Python dependencies
DependencyCheck ==
    /\ pc = "start"
    /\ \E answer \in YesNoAnswers, updateOk \in BOOLEAN, installOk \in BOOLEAN,
          pipOk \in BOOLEAN, yamlOk \in BOOLEAN, requestsOk \in BOOLEAN :
        IF HAS_YAML /\ HAS_REQUESTS
        THEN /\ pc' = "privilege"
             /\ history' = Enter("dependencies")
             /\ UNCHANGED <<exit_code, flagVars, calls, out>>
        ELSE LET accepted == AskYesNo(answer, TRUE)
                 r == IF accepted
                      THEN InstallDependencies(is_root, package_manager, HAS_YAML,
                                               HAS_REQUESTS, updateOk, installOk,
                                               pipOk, yamlOk, requestsOk)
                      ELSE [ret |-> FALSE, raised |-> FALSE, yaml |-> HAS_YAML,
                            requests |-> HAS_REQUESTS]
             IN /\ UNCHANGED calls
                /\ HAS_YAML' = r.yaml
                /\ HAS_REQUESTS' = r.requests
                /\ IF r.raised
                   THEN RaiseToMain("ImportError", out,
                                    [Enter("dependencies") EXCEPT
                                       !.declined = ~accepted])
                   ELSE /\ history' = [Enter("dependencies") EXCEPT
                                         !.declined = ~accepted,
                                         !.imported =
                                            IF r.ret
                                            THEN (IF HAS_YAML THEN {}
                                                  ELSE {"yaml"})
                                                 \cup (IF HAS_REQUESTS THEN {}
                                                       ELSE {"requests"})
                                            ELSE {}]
                        /\ IF DependencyOutcome(accepted, r.ret) = "continue"
                           THEN pc' = "privilege" /\ UNCHANGED <<exit_code, out>>
                           ELSE Exit(1) /\ UNCHANGED out
    /\ UNCHANGED <<envVars, existing, influxdb_config, grafana_installed,
                   backup_config, elicitVars, i, files, backend, cap>>

\* run_installer, lines 870-873
PrivilegeCheck ==
    /\ pc = "privilege"
    /\ \E answer \in YesNoAnswers :
        IF is_root \/ AskYesNo(answer, FALSE)
        THEN pc' = "probe" /\ UNCHANGED exit_code
        ELSE Exit(1)
    /\ history' = [Enter("privilege") EXCEPT !.imported = {}]
    /\ UNCHANGED <<envVars, flagVars, existing, influxdb_config,
                   grafana_installed, backup_config, elicitVars, i, out, calls,
                   files, backend, cap>>

\* check_existing_services(): each answer is what systemctl is-active or the
\* TCP connect reports
CheckExistingServices ==
    /\ pc = "probe"
    /\ existing' \in ServiceStates
    /\ calls' = Append(calls, "check_existing_services")
    /\ pc' = "influxdb"
    /\ history' = Enter("probe")
    /\ UNCHANGED <<exit_code, envVars, flagVars, influxdb_config,
                   grafana_installed, backup_config, elicitVars, i, out,
                   files, backend, cap>>

\* variant of AlreadyRunning: a service counts as running only with both signs
AlreadyRunningBoth(unit, port) == unit /\ port
\* run_installer, lines 882 and 900: a service counts as running when its
\* unit is active or its port is open
AlreadyRunning(unit, port) == unit \/ port

\* run_installer, lines 881-895: the metrics-store stage up to the call of
\* setup_influxdb
InfluxdbStage ==
    /\ pc = "influxdb"
    /\ \E answer \in YesNoAnswers, token \in TokenAnswers, org \in OrgAnswers,
          bucket \in BucketAnswers, repoOk \in BOOLEAN, updateOk \in BOOLEAN,
          installOk \in BOOLEAN, pipOk \in BOOLEAN, update2Ok \in BOOLEAN,
          install2Ok \in BOOLEAN, yamlOk \in BOOLEAN, requestsOk \in BOOLEAN :
        IF AlreadyRunning(existing["influxdb"], existing["influxdb_port"])
        THEN /\ influxdb_config' =
                  IF AskYesNo(answer, TRUE)
                  THEN InfluxConfig(AskInput(token, ""), AskInput(org, "home"),
                                    AskInput(bucket, "backup"))
                  ELSE influxdb_config
             /\ pc' = "grafana"
             /\ history' = Enter("metrics")
             /\ UNCHANGED <<flagVars, calls, exit_code, out>>
        ELSE IF AskYesNo(answer, TRUE)
        THEN LET deps == InstallDependencies(is_root, package_manager, HAS_YAML,
                                             HAS_REQUESTS, updateOk, installOk,
                                             pipOk, yamlOk, requestsOk)
                 installed == InstallInfluxdb(is_root, package_manager, repoOk,
                                              update2Ok, install2Ok)
             IN /\ HAS_YAML' = deps.yaml
                /\ HAS_REQUESTS' = deps.requests
                /\ calls' = IF deps.ret THEN Append(calls, "install_influxdb")
                            ELSE calls
                /\ UNCHANGED influxdb_config
                /\ IF deps.raised
                   THEN RaiseToMain("ImportError", out, Enter("metrics"))
                   ELSE /\ pc' = IF deps.ret /\ installed THEN "setup_influxdb"
                                 ELSE "grafana"
                        /\ history' = Enter("metrics")
                        /\ UNCHANGED <<exit_code, out>>
        ELSE /\ pc' = "grafana"
             /\ history' = Enter("metrics")
             /\ UNCHANGED <<flagVars, calls, influxdb_config, exit_code, out>>
    /\ UNCHANGED <<envVars, existing, grafana_installed,
                   backup_config, elicitVars, i, files, backend, cap>>

\* variant of InRange: the loop allows one probe more than range(n)
InRangeInclusive(made, n) == made <= n
\* range(n): the loop body runs while the number of iterations made is below n
InRange(made, n) == made < n

\* variant of InfluxdbTimeoutResult: a configuration of defaults, not {}
InfluxdbTimeoutDefaults == InfluxConfig("", "home", "backups")
\* setup_influxdb, lines 405-407: the value returned when the loop runs out
InfluxdbTimeoutResult == EmptyDict

\* setup_influxdb, lines 385-397: the flag check and the service start
SetupInfluxdb ==
    /\ pc = "setup_influxdb"
    /\ calls' = Append(calls, "setup_influxdb")
    /\ \E enableOk \in BOOLEAN, startOk \in BOOLEAN :
        IF ~HAS_REQUESTS
        THEN /\ pc' = "grafana"
             /\ influxdb_config' = EmptyDict
             /\ UNCHANGED <<exit_code, out, history>>
        ELSE IF is_root /\ ~(enableOk /\ startOk)
        THEN /\ RaiseToMain("CalledProcessError", out, history)
             /\ UNCHANGED influxdb_config
        ELSE /\ pc' = "influxdb_poll"
             /\ UNCHANGED <<exit_code, influxdb_config, out, history>>
    /\ i' = 0
    /\ UNCHANGED <<envVars, flagVars, existing, grafana_installed,
                   backup_config, elicitVars, files, backend, cap>>

\* setup_influxdb, lines 401-404: one iteration of the polling loop, a probe
\* of port 8086 followed by the break or by the sleep of one second
InfluxdbProbe ==
    /\ pc = "influxdb_poll"
    /\ InRange(i, PollAttempts)
    /\ \E open \in BOOLEAN :
        IF open THEN pc' = "influxdb_api" /\ i' = 0
        ELSE pc' = pc /\ i' = i + 1
    /\ UNCHANGED <<exit_code, envVars, flagVars, existing, influxdb_config,
                   grafana_installed, backup_config, elicitVars, out, calls,
                   history, files, backend, cap>>

\* setup_influxdb, lines 405-407: the loop ran out, the else branch returns {}
InfluxdbTimeout ==
    /\ pc = "influxdb_poll"
    /\ ~InRange(i, PollAttempts)
    /\ UNCHANGED out
    /\ history' = [history EXCEPT !.influx_timeout = i]
    /\ influxdb_config' = InfluxdbTimeoutResult
    /\ i' = 0
    /\ pc' = "grafana"
    /\ UNCHANGED <<exit_code, envVars, flagVars, existing, grafana_installed,
                   backup_config, elicitVars, calls, files, backend, cap>>

\* variant of SetupAllowed: setup is attempted whatever the GET answered
SetupAllowedAlways(status) == TRUE
\* setup_influxdb, lines 410-428: setup goes on to the POST unless the GET
\* answered 200 with allowed false
SetupAllowed(status) == status # "configured"

\* setup_influxdb, lines 411 and 446: the requests sent
SetupRequests(status) ==
    IF SetupAllowed(status) THEN <<"GET", "POST">> ELSE <<"GET">>

\* variant of SetupInfluxdbResult: a POST that fails leaves a configuration
\* of the values entered, without a token
SetupInfluxdbResultPartial(status, post, token, org, bucket) ==
    IF ~SetupAllowed(status)
    THEN InfluxConfig(AskInput(token, ""), AskInput(org, "home"),
                      AskInput(bucket, "backup"))
    ELSE InfluxConfig(IF post = "201" THEN MintedToken ELSE "",
                      AskInput(org, "home"), AskInput(bucket, "backup"))
\* setup_influxdb, lines 409-462, on the answers of the setup API
SetupInfluxdbResult(status, post, token, org, bucket) ==
    IF ~SetupAllowed(status)
    THEN InfluxConfig(AskInput(token, ""), AskInput(org, "home"),
                      AskInput(bucket, "backup"))
    ELSE IF post = "201"
    THEN InfluxConfig(MintedToken, AskInput(org, "home"),
                      AskInput(bucket, "backup"))
    ELSE EmptyDict

\* variant of OpensFirewall: the port is opened for an empty configuration
OpensFirewallWhenEmpty(cfg, root) == ~Truthy(cfg) /\ root
\* variant of OpensFirewall: the port is opened whatever setup_influxdb
\* returned
OpensFirewallWhateverSetup(cfg, root) == root
\* run_installer, line 896: configure_firewall([8086]) is called for a
\* configuration that is not empty, in a privileged run
OpensFirewall(cfg, root) == Truthy(cfg) /\ root

\* setup_influxdb, lines 409-462, and run_installer, lines 895-897: the setup
\* API dialogue, the assignment of the result and the opening of port 8086
InfluxdbApi ==
    /\ pc = "influxdb_api"
    /\ \E status \in SetupStatus, post \in SetupPost, token \in TokenAnswers,
          org \in OrgAnswers, bucket \in BucketAnswers :
        LET result == SetupInfluxdbResult(status, post, token, org, bucket)
        IN /\ influxdb_config' = result
           /\ out' = out \cup
                (IF SetupAllowed(status) /\ post = "error_status"
                 THEN {Msg("error", "InfluxDB setup failed", "")}
                 ELSE IF SetupAllowed(status) /\ post = "network_error"
                 THEN {Msg("error", "Failed to configure InfluxDB", "")}
                 ELSE {})
           /\ history' = [history EXCEPT
                 !.setup = IF status = "configured" THEN "closed" ELSE "open",
                 !.api = SetupRequests(status),
                 !.post = IF SetupAllowed(status) THEN post ELSE "unsent"]
           /\ calls' = IF OpensFirewall(result, is_root)
                       THEN Append(calls, "configure_firewall(8086)")
                       ELSE calls
    /\ pc' = "grafana"
    /\ UNCHANGED <<exit_code, envVars, flagVars, existing, grafana_installed,
                   backup_config, elicitVars, i, files, backend, cap>>

\* run_installer, lines 899-905: the dashboard stage up to the call of
\* setup_grafana
GrafanaStage ==
    /\ pc = "grafana"
    /\ \E answer \in YesNoAnswers, repoOk \in BOOLEAN, updateOk \in BOOLEAN,
          installOk \in BOOLEAN :
        IF AlreadyRunning(existing["grafana"], existing["grafana_port"])
        THEN /\ grafana_installed' = TRUE
             /\ pc' = "backup_config"
             /\ UNCHANGED <<calls, out>>
        ELSE IF AskYesNo(answer, TRUE)
        THEN /\ calls' = Append(calls, "install_grafana")
             /\ pc' = IF InstallGrafana(is_root, package_manager, repoOk,
                                        updateOk, installOk)
                      THEN "setup_grafana" ELSE "backup_config"
             /\ UNCHANGED <<grafana_installed, out>>
        ELSE /\ pc' = "backup_config"
             /\ UNCHANGED <<grafana_installed, out, calls>>
    /\ \E now \in {"up", "down"} :
          history' = [Enter("dashboard") EXCEPT !.dashboard_now = now]
    /\ UNCHANGED <<exit_code, envVars, flagVars, existing, influxdb_config,
                   backup_config, elicitVars, i, files, backend, cap>>

\* setup_grafana(influxdb_config), lines 464-470: the service start
SetupGrafana ==
    /\ pc = "setup_grafana"
    /\ calls' = Append(calls, "setup_grafana")
    /\ \E enableOk \in BOOLEAN, startOk \in BOOLEAN :
        IF is_root /\ ~(enableOk /\ startOk)
        THEN RaiseToMain("CalledProcessError", out, history)
        ELSE /\ pc' = "grafana_poll"
             /\ UNCHANGED <<exit_code, out, history>>
    /\ i' = 0
    /\ UNCHANGED <<envVars, flagVars, existing, influxdb_config,
                   grafana_installed, backup_config, elicitVars, files,
                   backend, cap>>

\* setup_grafana, lines 485-491: the lines printed about the metrics store
\* once the port is open
GrafanaReport(cfg) ==
    IF Truthy(cfg)
    THEN {Msg("info", "URL: http://localhost:", cfg["port"]),
          Msg("info", "Organization", cfg["organization"]),
          Msg("info", "Token", cfg["token"]),
          Msg("info", "Default Bucket", cfg["bucket"])}
    ELSE {}

\* run_installer, line 907: configure_firewall([3000]) is called when
\* setup_grafana returned True, in a privileged run
OpensDashboardPort(installed, root) == installed /\ root

\* setup_grafana, lines 474-493, and run_installer, lines 906-908: one
\* iteration of the polling loop; once the port is open, the report, the
\* return of True and the opening of port 3000
GrafanaProbe ==
    /\ pc = "grafana_poll"
    /\ InRange(i, PollAttempts)
    /\ \E open \in BOOLEAN :
        IF open
        THEN /\ pc' = "backup_config"
             /\ i' = 0
             /\ out' = out \cup GrafanaReport(influxdb_config)
             /\ grafana_installed' = TRUE
             /\ calls' = IF OpensDashboardPort(TRUE, is_root)
                         THEN Append(calls, "configure_firewall(3000)")
                         ELSE calls
        ELSE /\ pc' = pc
             /\ i' = i + 1
             /\ UNCHANGED <<out, grafana_installed, calls>>
    /\ UNCHANGED <<exit_code, envVars, flagVars, existing, influxdb_config,
                   backup_config, elicitVars, history, files, backend, cap>>

\* setup_grafana, lines 478-480: the loop ran out, the else branch returns
\* False
GrafanaTimeout ==
    /\ pc = "grafana_poll"
    /\ ~InRange(i, PollAttempts)
    /\ UNCHANGED out
    /\ history' = [history EXCEPT !.grafana_timeout = i]
    /\ grafana_installed' = FALSE
    /\ i' = 0
    /\ pc' = "backup_config"
    /\ UNCHANGED <<exit_code, envVars, flagVars, existing, influxdb_config,
                   backup_config, elicitVars, calls, files, backend, cap>>

-----------------------------------------------------------------------------
(* Configuration elicitation: setup_backup_config and what it calls.       *)

\* what the operator types at the prompts of the dialogue
BaseAnswers == {<<"">>}
VolumeAnswers == {<<"">>}
HostAnswers == {<<"web1">>, <<" web1 ">>, <<"", "db1">>}
SubdirAnswers == {<<"data">>, <<"", "data">>}
\* what the operator types for one backup path: the default path without an
\* exclude file, or another path with one
PathEntries ==
    {[path |-> <<"">>, exclude |-> "", file |-> <<"">>],
     [path |-> <<"/home">>, exclude |-> "y", file |-> <<"", "/etc/backup/exclude">>]}
TypeAnswers == {<<"daily">>}
CountAnswers == {<<"">>, <<" 3 ">>}
HoursAnswers == {<<"">>, <<"1">>, <<"soon">>}

\* int(s) on the answers above: the strings int() accepts, and their values
IsInt(s) == s \in {"1", "3", "7", "24"}
ParseInt(s) ==
    CASE s = "1" -> 1
      [] s = "3" -> 3
      [] s = "7" -> 7
      [] s = "24" -> 24
      [] OTHER -> 0

\* setup_backup_config, lines 507-518: the document before any answer
InitialConfig ==
    [config |-> [backup_base |-> "/share/backup/",
                 lock_file |-> "/tmp/backup.fil",
                 rsync_options |->
                     "-avz --delete --numeric-ids --stats --human-readable"],
     hosts |-> EmptyDict,
     snapshots |-> [volume |-> "/share", schedules |-> <<>>]]

\* setup_snapshots_config, lines 556-561
DefaultSchedules ==
    << [type |-> "hourly", count |-> 6, interval |-> 14400],
       [type |-> "daily", count |-> 7, interval |-> 86400],
       [type |-> "weekly", count |-> 4, interval |-> 604800],
       [type |-> "monthly", count |-> 12, interval |-> 2592000] >>

\* variant of SnapshotDecision: without BTRFS the section is deleted and the
\* dialogue goes on, whatever the answer
SnapshotDecisionLenient(btrfs, yes) ==
    IF btrfs THEN (IF yes THEN "configure" ELSE "delete")
    ELSE "delete"
\* variant of SnapshotDecision: on BTRFS the snapshots section is configured
\* whatever the answer
SnapshotDecisionAlways(btrfs, yes) ==
    IF btrfs THEN "configure"
    ELSE (IF yes THEN "delete" ELSE "abort")
\* setup_backup_config, lines 528-541: what becomes of the snapshots section
\* on the filesystem check and the operator's answer; "abort" is return {}
SnapshotDecision(btrfs, yes) ==
    IF btrfs THEN (IF yes THEN "configure" ELSE "delete")
    ELSE (IF yes THEN "delete" ELSE "abort")

\* variant of BackupConfigFailed: run_installer goes on with whatever
\* setup_backup_config returned
BackupConfigFailedNever(doc) == FALSE
\* run_installer, lines 911-914: the test of the value setup_backup_config
\* returned; an empty document ends the run with 'Backup configuration
\* failed' and exit code 1
BackupConfigFailed(doc) == ~Truthy(doc)

\* setup_backup_config, lines 503-541: base settings and snapshot decision
SetupBackupConfig ==
    /\ pc = "backup_config"
    /\ calls' = Append(calls, "setup_backup_config")
    /\ \E base \in BaseAnswers, btrfs \in BOOLEAN, answer \in YesNoAnswers :
        LET doc == [InitialConfig EXCEPT
                      !.config.backup_base = AskInput(base, "/share/backup/")]
            decision == SnapshotDecision(btrfs, AskYesNo(answer, TRUE))
        IN /\ is_btrfs' = btrfs
           /\ history' = [Enter("elicitation") EXCEPT
                 !.opted_in = IF ~btrfs THEN "unasked"
                              ELSE IF AskYesNo(answer, TRUE) THEN "yes" ELSE "no",
                 !.without = IF btrfs THEN "unasked"
                             ELSE IF AskYesNo(answer, TRUE) THEN "yes" ELSE "no"]
           /\ CASE decision = "configure" ->
                     /\ config' = doc
                     /\ pc' = "snapshots"
                     /\ UNCHANGED <<exit_code, out>>
                [] decision = "delete" ->
                     /\ config' = Del(doc, "snapshots")
                     /\ pc' = "hosts"
                     /\ UNCHANGED <<exit_code, out>>
                [] OTHER ->
                     /\ config' = EmptyDict
                     /\ IF BackupConfigFailed(EmptyDict)
                        THEN /\ Exit(1)
                             /\ out' = out \cup
                                  {Msg("error", "BTRFS filesystem required for snapshots", ""),
                                   Msg("error", "Backup configuration failed", "")}
                        ELSE /\ pc' = "scripts"
                             /\ out' = out \cup
                                  {Msg("error", "BTRFS filesystem required for snapshots", "")}
                             /\ UNCHANGED exit_code
    /\ UNCHANGED <<envVars, flagVars, existing, influxdb_config,
                   grafana_installed, backup_config, hostname, host_config, i,
                   files, backend, cap>>

\* setup_snapshots_config, lines 548-571: the volume and the choice of the
\* default schedule
SetupSnapshotsConfig ==
    /\ pc = "snapshots"
    /\ \E volume \in VolumeAnswers, answer \in YesNoAnswers :
        LET doc == [config EXCEPT !.snapshots.volume = AskInput(volume, "/share")]
        IN IF AskYesNo(answer, TRUE)
           THEN /\ config' = [doc EXCEPT !.snapshots.schedules = DefaultSchedules]
                /\ history' = [history EXCEPT !.policy = "default"]
                /\ pc' = "hosts"
           ELSE /\ config' = [doc EXCEPT !.snapshots.schedules = <<>>]
                /\ history' = [history EXCEPT !.policy = "custom"]
                /\ pc' = "schedules"
    /\ UNCHANGED <<exit_code, envVars, flagVars, existing, influxdb_config,
                   grafana_installed, backup_config, is_btrfs, hostname,
                   host_config, i, out, calls, files, backend, cap>>

\* variant of IntervalSeconds: the hours are taken for minutes
IntervalSecondsOfMinutes(hours) == hours * 60
\* setup_snapshots_config, line 577: interval = hours * 3600
IntervalSeconds(hours) == hours * 3600

\* variant of LeavesLoop: no answer ends a loop of the dialogue
LeavesLoopNever(answer, default) == FALSE
\* setup_snapshots_config, line 572, setup_hosts_config, lines 588 and 609:
\* 'while self.ask_yes_no(...)' is left when the answer reads as no
LeavesLoop(answer, default) == ~AskYesNo(answer, default)

\* setup_snapshots_config, lines 572-582: one turn of the custom schedule
\* loop; int() raises ValueError on an answer that is no number
AddSchedule ==
    /\ pc = "schedules"
    /\ \E answer \in YesNoAnswers, type \in TypeAnswers, count \in CountAnswers,
          hours \in HoursAnswers :
        LET countText == AskInput(count, "7")
            hoursText == AskInput(hours, "24")
        IN IF LeavesLoop(answer, FALSE)
           THEN /\ pc' = "hosts"
                /\ UNCHANGED <<exit_code, config, out, history>>
           ELSE /\ Len(config.snapshots.schedules) < cap.schedules
                /\ IF IsInt(countText) /\ IsInt(hoursText)
                   THEN /\ config' = [config EXCEPT !.snapshots.schedules =
                                Append(@, [type |-> AskInput(type, ""),
                                           count |-> ParseInt(countText),
                                           interval |->
                                             IntervalSeconds(ParseInt(hoursText))])]
                        /\ history' = [history EXCEPT !.asked =
                                Append(@, [type |-> AskInput(type, ""),
                                           count |-> countText,
                                           hours |-> hoursText])]
                        /\ pc' = pc
                        /\ UNCHANGED <<exit_code, out>>
                   ELSE /\ RaiseToMain("ValueError", out, history)
                        /\ UNCHANGED config
    /\ UNCHANGED <<envVars, flagVars, existing, influxdb_config,
                   grafana_installed, backup_config, is_btrfs, hostname,
                   host_config, i, calls, files, backend, cap>>

\* setup_hosts_config, lines 591-606: host_config after the SSH questions
NewHostConfig(name, remote, user, target, key, ignorePing) ==
    IF ~remote THEN [paths |-> <<>>]
    ELSE IF ignorePing
    THEN [paths |-> <<>>, ssh_user |-> user, hostname |-> target,
          ssh_key |-> key, ignore_ping |-> TRUE]
    ELSE [paths |-> <<>>, ssh_user |-> user, hostname |-> target,
          ssh_key |-> key]

\* variant of NewPathList: every host_config refers to one and the same list
SharedPathList(committed) == committed
\* setup_hosts_config, lines 591-593: "'paths': []" makes a new list object
\* for the host entry; of the committed hosts, those whose entry refers to it
NewPathList(committed) == {}

\* setup_hosts_config, lines 588-606: the operator adds a host
BeginHost ==
    /\ pc = "hosts"
    /\ history.entries < cap.hosts
    /\ \E answer \in YesNoAnswers, name \in HostAnswers, remote \in YesNoAnswers,
          ping \in YesNoAnswers :
        /\ AskYesNo(answer, TRUE)
        /\ hostname' = AskInput(name, "")
        /\ host_config' =
             NewHostConfig(hostname', AskYesNo(remote, TRUE),
                           AskInput(<<"">>, "backup"),
                           AskInput(<<"">>, hostname'),
                           AskInput(<<"">>, "/root/.ssh/id_ed25519"),
                           AskYesNo(ping, FALSE))
    /\ LET sharers == NewPathList(DOMAIN history.lists)
       IN history' = [history EXCEPT
             !.sharers = sharers,
             !.current = IF sharers = {} THEN <<>>
                         ELSE history.lists[CHOOSE h \in sharers : TRUE],
             !.typed = <<>>]
    /\ pc' = "paths"
    /\ UNCHANGED <<exit_code, envVars, flagVars, existing, influxdb_config,
                   grafana_installed, backup_config, config, is_btrfs, i, out,
                   calls, files, backend, cap>>

\* setup_hosts_config, lines 613-619: path_config after the questions
NewPathConfig(path, subdir, exclude, fileAnswers) ==
    LET base == IF subdir # "" THEN [path |-> path, dest_subdir |-> subdir]
                ELSE [path |-> path]
    IN IF exclude THEN base @@ [exclude_file |-> AskInput(fileAnswers, "")]
       ELSE base

\* setup_hosts_config, line 621: host_config['paths'].append(path_config)
AppendPath(paths, path_config) == Append(paths, path_config)

\* setup_hosts_config, lines 609-621: the operator adds a path
AddPath ==
    /\ pc = "paths"
    /\ Len(host_config.paths) < cap.paths
    /\ \E answer \in YesNoAnswers, entry \in PathEntries, subdir \in SubdirAnswers :
        LET path_config == NewPathConfig(AskInput(entry.path, "/etc"),
                                         AskInput(subdir, ""),
                                         AskYesNo(entry.exclude, FALSE),
                                         entry.file)
        IN /\ AskYesNo(answer, TRUE)
           /\ host_config' = [host_config EXCEPT !.paths =
                                AppendPath(@, path_config)]
           /\ history' = [history EXCEPT
                 !.current = AppendPath(@, path_config),
                 !.lists = [h \in DOMAIN @ |->
                              IF h \in history.sharers
                              THEN AppendPath(@[h], path_config) ELSE @[h]],
                 !.typed = Append(@, path_config)]
    /\ pc' = pc
    /\ UNCHANGED <<exit_code, envVars, flagVars, existing, influxdb_config,
                   grafana_installed, backup_config, config, is_btrfs,
                   hostname, i, out, calls, files, backend, cap>>

\* variant of CommitHostConfig: an identifier already present keeps the keys
\* of its earlier entry that the new entry does not set
CommitHostConfigMerged(hosts, name, entry) ==
    IF HasKey(hosts, name) THEN Put(hosts, name, entry @@ hosts[name])
    ELSE Put(hosts, name, entry)
\* setup_hosts_config, line 623: config['hosts'][hostname] = host_config
CommitHostConfig(hosts, name, entry) == Put(hosts, name, entry)

\* variant of CommitsHost: a host entry without a path is dropped
CommitsHostWithPaths(paths) == paths # <<>>
\* setup_hosts_config, lines 609-623: the assignment of line 623 follows the
\* path loop with no test of the paths entered
CommitsHost(paths) == TRUE

\* setup_hosts_config, lines 609 and 623: the operator declines a further
\* path and the host is committed
CommitHost ==
    /\ pc = "paths"
    /\ \E answer \in YesNoAnswers : LeavesLoop(answer, TRUE)
    /\ config' = IF CommitsHost(host_config.paths)
                 THEN [config EXCEPT !.hosts =
                         CommitHostConfig(@, hostname, host_config)]
                 ELSE config
    /\ history' = [history EXCEPT
          !.entries = @ + 1,
          !.latest = [h \in DOMAIN @ \cup {hostname} |->
                        IF h = hostname THEN host_config ELSE @[h]],
          !.overwrote = /\ HasKey(config.hosts, hostname)
                        /\ config.hosts[hostname] # host_config,
          !.lists = Put(@, hostname, history.current),
          !.typed_for = Put(@, hostname, history.typed),
          !.current = <<>>,
          !.typed = <<>>]
    /\ pc' = "hosts"
    /\ UNCHANGED <<exit_code, envVars, flagVars, existing, influxdb_config,
                   grafana_installed, backup_config, is_btrfs, hostname,
                   host_config, i, out, calls, files, backend, cap>>

\* setup_hosts_config, lines 625-629: the value it returns
SetupHostsResult(hosts) == Truthy(hosts)

\* variant of SetupBackupConfigResult: the document is returned only when no
\* host was configured
SetupBackupConfigResultInverted(doc, hostsOk) ==
    IF hostsOk THEN EmptyDict ELSE doc
\* setup_backup_config, lines 544-546: the value it returns once
\* setup_hosts_config has returned hostsOk
SetupBackupConfigResult(doc, hostsOk) == doc

\* setup_hosts_config, lines 588 and 625-629, setup_backup_config, lines
\* 544-546, and run_installer, lines 911-914: the operator declines a further
\* host, the document is returned and run_installer tests it
EndHosts ==
    /\ pc = "hosts"
    /\ \E answer \in YesNoAnswers : LeavesLoop(answer, TRUE)
    /\ LET hostsOk == SetupHostsResult(config.hosts)
           result == SetupBackupConfigResult(config, hostsOk)
           printed == IF hostsOk THEN out
                      ELSE out \cup {Msg("error",
                                         "At least one host must be configured", "")}
       IN /\ backup_config' = result
          /\ IF ~BackupConfigFailed(result)
             THEN pc' = "scripts" /\ out' = printed /\ UNCHANGED exit_code
             ELSE /\ Exit(1)
                  /\ out' = printed \cup
                       {Msg("error", "Backup configuration failed", "")}
    /\ UNCHANGED <<envVars, flagVars, existing, influxdb_config,
                   grafana_installed, elicitVars, i, calls, history, files,
                   backend, cap>>

-----------------------------------------------------------------------------
(* Script installation, persistence and summary.                           *)

Text(b) == IF b THEN "True" ELSE "False"

\* variant of InstallsScripts: the stage is run whatever the privileges
InstallsScriptsAlways(root) == TRUE
\* run_installer, line 917: the script/service stage is run by root only
InstallsScripts(root) == root

\* install_backup_scripts, lines 635-671: what it sets out to write
ScriptArtifacts(root) == IF root THEN {"scripts"} ELSE {}
\* create_systemd_service, lines 677-728: what it sets out to write
ServiceArtifacts(root) == IF root THEN {"unit", "timer"} ELSE {}

\* install_backup_scripts, lines 639-643: the scripts, in the order they are
\* installed
Scripts == <<"backup-new.sh", "backup-metrics", "job_pool.sh">>
\* what happens to a script: it is there and copied, it is missing, the copy
\* fails; job_pool.sh, when missing, is downloaded and copied, or the
\* download fails
ScriptStatuses ==
    {st \in [DOMAIN Scripts -> {"present", "missing", "copy_failed",
                                "downloaded", "download_failed"}] :
        /\ \A k \in DOMAIN Scripts :
              Scripts[k] # "job_pool.sh" =>
                  st[k] \in {"present", "missing", "copy_failed"}
        /\ \A k \in DOMAIN Scripts :
              Scripts[k] = "job_pool.sh" => st[k] # "missing"}

\* install_backup_scripts(), lines 645-671: the loop from script k on, with
\* the scripts installed before
RECURSIVE InstallFrom(_, _, _)
InstallFrom(k, st, installed) ==
    IF k > Len(Scripts)
    THEN [ret |-> TRUE, raised |-> FALSE, installed |-> installed]
    ELSE CASE st[k] \in {"present", "downloaded"} ->
                InstallFrom(k + 1, st, installed \cup {Scripts[k]})
           [] st[k] = "download_failed" -> InstallFrom(k + 1, st, installed)
           [] OTHER -> [ret |-> FALSE, raised |-> FALSE, installed |-> installed]

\* install_backup_scripts(), lines 631-671
InstallBackupScripts(root, st) ==
    IF ~root THEN [ret |-> FALSE, raised |-> FALSE, installed |-> {}]
    ELSE InstallFrom(1, st, {})

\* how far create_systemd_service gets: the step that fails, or the timer
\* enabled and not started (the operator declines), or started
ServiceOutcomes ==
    {"write_failed", "reload_failed", "enable_failed", "start_failed",
     "enabled", "started"}

\* create_systemd_service(), lines 673-728: the value returned, whether the
\* unit files were written and the state of the timer
CreateSystemdService(root, outcome) ==
    IF ~root
    THEN [ret |-> FALSE, raised |-> FALSE, written |-> FALSE, timer |-> "absent"]
    ELSE [ret |-> outcome \in {"enabled", "started"},
          raised |-> FALSE,
          written |-> outcome # "write_failed",
          timer |-> CASE outcome \in {"start_failed", "enabled"} -> "enabled"
                      [] outcome = "started" -> "started"
                      [] OTHER -> "absent"]

\* variant of CreatesService: the service is created only for scripts that
\* were installed
CreatesServiceIfScripts(scriptsOk) == scriptsOk
\* run_installer, lines 918-919: create_systemd_service() follows
\* install_backup_scripts(), whose result is not looked at
CreatesService(scriptsOk) == TRUE

\* run_installer, lines 916-919: the calls of the script/service stage
ScriptStageCalls(root, st) ==
    IF ~InstallsScripts(root) THEN <<>>
    ELSE LET scripts == InstallBackupScripts(root, st)
         IN <<"install_backup_scripts">>
            \o (IF ~scripts.raised /\ CreatesService(scripts.ret)
                THEN <<"create_systemd_service">> ELSE <<>>)

\* run_installer, lines 916-919: install_backup_scripts and
\* create_systemd_service, both called in a privileged run only; each
\* catches what goes wrong and returns a boolean that is not looked at
InstallScriptsAndService ==
    /\ pc = "scripts"
    /\ \E st \in ScriptStatuses :
        /\ calls' = calls \o ScriptStageCalls(is_root, st)
        /\ history' = [Enter("scripts") EXCEPT !.attempted =
              IF InstallsScripts(is_root)
              THEN ScriptArtifacts(is_root)
                   \cup (IF CreatesService(InstallBackupScripts(is_root, st).ret)
                         THEN ServiceArtifacts(is_root) ELSE {})
              ELSE {}]
    /\ pc' = "save"
    /\ UNCHANGED <<exit_code, envVars, flagVars, existing, influxdb_config,
                   grafana_installed, backup_config, elicitVars, i, out,
                   files, backend, cap>>

\* what becomes of one dump of save_configurations (lines 744-746 and
\* 750-752): the document is written; open(path, 'w') is refused and no file
\* is made; or open succeeds and the write fails, before anything reached
\* the file or part-way through the document
DumpOutcomes == {"written", "open_refused", "left_empty", "left_truncated"}

\* a file that open(path, 'w') has created and into which nothing was
\* written: it is there, with no document in it
EmptyFile == [FILE_LEFT_EMPTY |-> TRUE]

\* a file into which the write stopped part-way: it holds a proper prefix
\* of the dump that is not empty.  What such a prefix parses as (another
\* document, the same one, or none) depends on where the write stopped and
\* is left open: the value stands for all of them and equals no document.
TruncatedFile == [FILE_TRUNCATED |-> TRUE]

\* what a dump that failed after open() leaves in the place of the document
FailedDumps == {EmptyFile, TruncatedFile}

\* yaml.dump into the file open(path, 'w') returned, lines 745 and 751: what
\* is in the file once the with block is left
Dumped(outcome, doc) ==
    CASE outcome = "written" -> doc
      [] outcome = "left_empty" -> EmptyFile
      [] outcome = "left_truncated" -> TruncatedFile

\* save_configurations(backup_config, influxdb_config), lines 730-765: the
\* value returned, the files left behind and whether the except clause of
\* lines 763-765 printed 'Failed to save configurations'.  Without PyYAML
\* the function returns False at lines 734-737, before that try block;
\* mkdir runs before the try block; writeBackup and writeInflux are the
\* outcomes of the two dumps, copyOk that of the copy of the dashboard.  A
\* dump that fails ends the try block: the file it had opened stays behind,
\* empty or cut short, and the files written before it stay whole.  True is
\* returned only when both dumps and the copy went through.
SaveResult(hasYaml, mkdirOk, writeBackup, writeInflux, copyOk, backupDoc, influxDoc) ==
    LET failed(left) == [ret |-> FALSE, raised |-> FALSE, failed |-> TRUE,
                         files |-> left]
    IN IF ~hasYaml
       THEN [ret |-> FALSE, raised |-> FALSE, failed |-> FALSE, files |-> EmptyDict]
       ELSE IF ~mkdirOk
       THEN [ret |-> FALSE, raised |-> TRUE, failed |-> FALSE, files |-> EmptyDict]
       ELSE IF writeBackup = "open_refused" THEN failed(EmptyDict)
       ELSE IF writeBackup # "written"
       THEN failed([backup |-> Dumped(writeBackup, backupDoc)])
       ELSE IF writeInflux = "open_refused" THEN failed([backup |-> backupDoc])
       ELSE IF writeInflux # "written"
       THEN failed([backup |-> backupDoc,
                    influx |-> Dumped(writeInflux, [influxdb |-> influxDoc])])
       ELSE [ret |-> copyOk, raised |-> FALSE, failed |-> ~copyOk,
             files |-> [backup |-> backupDoc,
                        influx |-> [influxdb |-> influxDoc]]]

\* the file of that name is there and the dump into it ran to its end
HoldsDocument(name) == HasKey(files, name) /\ files[name] \notin FailedDumps

\* save_configurations returned True: line 762, reached when neither dump
\* nor the copy of the dashboard raised
Saved == history.saved = "True"

\* run_installer, lines 927-931: the metrics-store lines of the summary
SummaryReport(cfg) ==
    {Msg("header", "Installation Complete!", "")}
    \cup (IF Truthy(cfg)
          THEN {Msg("info", "URL: http://localhost:", cfg["port"]),
                Msg("info", "Organization", cfg["organization"]),
                Msg("info", "Bucket", cfg["bucket"])}
          ELSE {})

\* variant of AfterSave: a save that failed ends the run before the summary
AfterSaveStrict(saved) == IF saved THEN "summary" ELSE "exit"
\* run_installer, lines 922-925: what run_installer does once
\* save_configurations has returned saved
AfterSave(saved) == "summary"

\* run_installer, lines 921-955, and the return to main(): the call of
\* save_configurations, the summary, and the end of the process with exit
\* code 0
SaveConfigurations ==
    /\ pc = "save"
    /\ calls' = Append(calls, "save_configurations")
    /\ \E r \in {SaveResult(HAS_YAML, mkdirOk, writeBackup, writeInflux, copyOk,
                             backup_config, influxdb_config) :
                      mkdirOk \in BOOLEAN, writeBackup \in DumpOutcomes,
                      writeInflux \in DumpOutcomes, copyOk \in BOOLEAN} :
        LET printed == IF r.failed
                       THEN out \cup {Msg("error", "Failed to save configurations", "")}
                       ELSE out
        IN /\ files' = r.files
           /\ IF r.raised
              THEN RaiseToMain("OSError", out,
                               [Enter("persistence") EXCEPT !.saved = "raised"])
              ELSE /\ history' = [Enter("persistence") EXCEPT !.saved =
                                    IF r.ret THEN "True" ELSE "False"]
                   /\ IF AfterSave(r.ret) = "summary"
                      THEN /\ out' = printed \cup SummaryReport(influxdb_config)
                           /\ pc' = "done"
                           /\ exit_code' = 0
                      ELSE Exit(1) /\ out' = printed
    /\ UNCHANGED <<envVars, flagVars, existing, influxdb_config,
                   grafana_installed, backup_config, elicitVars, i, backend,
                   cap>>

\* The prompts of a run, by the position of the run at which they are
\* reached: the line of the prompt, the stage of run_installer, and the
\* except clauses of the try blocks around the prompt, innermost first.
\* Of the prompts that follow one another with nothing done in between, the
\* first is listed.
PromptSites ==
    {[at |-> "start", line |-> 859, stage |-> "dependencies", handlers |-> <<>>],
     [at |-> "privilege", line |-> 872, stage |-> "privilege", handlers |-> <<>>],
     [at |-> "influxdb", line |-> 884, stage |-> "metrics", handlers |-> <<>>],
     [at |-> "influxdb", line |-> 893, stage |-> "metrics", handlers |-> <<>>],
     [at |-> "influxdb", line |-> 292, stage |-> "metrics",
      handlers |-> <<"CalledProcessError">>],
     [at |-> "influxdb", line |-> 316, stage |-> "metrics",
      handlers |-> <<"Exception">>],
     [at |-> "influxdb", line |-> 330, stage |-> "metrics",
      handlers |-> <<"CalledProcessError">>],
     [at |-> "influxdb_api", line |-> 417, stage |-> "metrics",
      handlers |-> <<"RequestException">>],
     [at |-> "influxdb_api", line |-> 432, stage |-> "metrics", handlers |-> <<>>],
     [at |-> "grafana", line |-> 904, stage |-> "dashboard", handlers |-> <<>>],
     [at |-> "backup_config", line |-> 521, stage |-> "elicitation",
      handlers |-> <<>>],
     [at |-> "backup_config", line |-> 530, stage |-> "elicitation",
      handlers |-> <<>>],
     [at |-> "backup_config", line |-> 537, stage |-> "elicitation",
      handlers |-> <<>>],
     [at |-> "snapshots", line |-> 552, stage |-> "elicitation", handlers |-> <<>>],
     [at |-> "schedules", line |-> 572, stage |-> "elicitation", handlers |-> <<>>],
     [at |-> "hosts", line |-> 588, stage |-> "elicitation", handlers |-> <<>>],
     [at |-> "paths", line |-> 609, stage |-> "elicitation", handlers |-> <<>>],
     [at |-> "scripts", line |-> 693, stage |-> "scripts", handlers |-> <<>>],
     [at |-> "scripts", line |-> 720, stage |-> "scripts",
      handlers |-> <<"Exception">>]}

\* the prompt of the site is reached from the present state
SiteReached(site) ==
    /\ site.at = pc
    /\ site.line = 859 => ~HAS_YAML \/ ~HAS_REQUESTS
    /\ site.line = 872 => ~is_root
    /\ site.line = 884 =>
         AlreadyRunning(existing["influxdb"], existing["influxdb_port"])
    /\ site.line \in {893, 292, 316, 330} =>
         ~AlreadyRunning(existing["influxdb"], existing["influxdb_port"])
    /\ site.line = 292 => package_manager = "apt"
    /\ site.line = 316 => package_manager \in {"dnf", "yum"}
    /\ site.line = 330 => package_manager = "zypper"
    /\ site.line = 417 => \E status \in SetupStatus : ~SetupAllowed(status)
    /\ site.line = 432 => \E status \in SetupStatus : SetupAllowed(status)
    /\ site.line = 904 =>
         ~AlreadyRunning(existing["grafana"], existing["grafana_port"])
    /\ site.line \in {693, 720} => InstallsScripts(is_root)

\* The history of the run at the moment the prompt of the site is shown:
\* the stage entered and what the stage has done before it asks.  At lines
\* 417 and 432 setup_influxdb has sent the GET of line 411 and read its
\* answer; at line 693 install_backup_scripts has run, at line 720 the unit
\* and the timer are written and enabled as well.
SiteHistory(site) ==
    LET entered == Enter(site.stage)
    IN CASE site.line = 417 ->
              [entered EXCEPT !.setup = "closed", !.api = <<"GET">>]
         [] site.line = 432 ->
              [entered EXCEPT !.setup = "open", !.api = <<"GET">>]
         [] site.line = 693 ->
              [entered EXCEPT !.attempted = ScriptArtifacts(is_root)]
         [] site.line = 720 ->
              [entered EXCEPT !.attempted = ScriptArtifacts(is_root)
                                             \cup ServiceArtifacts(is_root)]
         [] OTHER -> entered

\* variant of Catches: 'except Exception' catches every exception
CatchesAll(handler, exc) ==
    handler \in {"bare", "BaseException", "Exception", exc}
\* an except clause catches an exception of its class or of a subclass;
\* KeyboardInterrupt derives from BaseException and not from Exception
Catches(handler, exc) ==
    \/ handler \in {"bare", "BaseException", exc}
    \/ handler = "Exception" /\ exc # "KeyboardInterrupt"

\* main(), lines 960-969: the except clauses around run_installer
MainHandlers == <<"KeyboardInterrupt", "Exception">>

\* what becomes of an exception raised under the handlers, innermost first,
\* and then under those of main()
Propagate(handlers, exc) ==
    IF \E k \in DOMAIN handlers : Catches(handlers[k], exc) THEN "swallowed"
    ELSE IF \E k \in DOMAIN MainHandlers : Catches(MainHandlers[k], exc)
    THEN "caught"
    ELSE "uncaught"

\* The operator interrupts a prompt: input() raises KeyboardInterrupt.  An
\* inner handler that catches it lets the run go on; main() prints
\* 'Installation cancelled by user' and exits with 1 (lines 962-964); an
\* exception nothing catches ends the process with a traceback.  What the
\* stage did before it showed the prompt stays done: the version question
\* of install_influxdb follows install_dependencies, which returned True,
\* and the call of install_influxdb (line 894); the first question of
\* setup_backup_config follows its call (line 911); the questions of
\* create_systemd_service follow the calls of lines 918-919.  The local
\* variables of the function that was interrupted go with its frame.
Interrupt ==
    /\ pc \notin {"done", "exited"}
    /\ history.interrupt = "none"
    /\ \E site \in PromptSites :
        /\ SiteReached(site)
        /\ CASE site.line \in {292, 316, 330} ->
                  \E deps \in {InstallDependencies(is_root, package_manager,
                                    HAS_YAML, HAS_REQUESTS, updateOk, installOk,
                                    pipOk, yamlOk, requestsOk) :
                                updateOk \in BOOLEAN, installOk \in BOOLEAN,
                                pipOk \in BOOLEAN, yamlOk \in BOOLEAN,
                                requestsOk \in BOOLEAN} :
                      /\ deps.ret /\ ~deps.raised
                      /\ HAS_YAML' = deps.yaml
                      /\ HAS_REQUESTS' = deps.requests
                      /\ calls' = Append(calls, "install_influxdb")
             [] site.line \in {521, 530, 537} ->
                  /\ calls' = Append(calls, "setup_backup_config")
                  /\ UNCHANGED flagVars
             [] site.line \in {693, 720} ->
                  \E made \in {ScriptStageCalls(is_root, st) :
                                  st \in ScriptStatuses} :
                      /\ made # <<>>
                      /\ made[Len(made)] = "create_systemd_service"
                      /\ calls' = calls \o made
                      /\ UNCHANGED flagVars
             [] OTHER -> UNCHANGED <<calls, flagVars>>
        /\ LET fate == Propagate(site.handlers, "KeyboardInterrupt")
           IN /\ history' = [SiteHistory(site) EXCEPT
                               !.interrupt = fate,
                               !.uncaught = IF fate = "caught"
                                            THEN "KeyboardInterrupt" ELSE @]
              /\ IF fate = "swallowed"
                 THEN UNCHANGED <<pc, exit_code, out>>
                 ELSE /\ Exit(1)
                      /\ out' = IF fate = "caught"
                                THEN out \cup {Msg("warning",
                                        "Installation cancelled by user", "")}
                                ELSE out
    /\ UNCHANGED <<envVars, existing, influxdb_config, grafana_installed,
                   backup_config, elicitVars, i, files, backend, cap>>

Next ==
    \/ DependencyCheck
    \/ PrivilegeCheck
    \/ CheckExistingServices
    \/ InfluxdbStage
    \/ SetupInfluxdb
    \/ InfluxdbProbe
    \/ InfluxdbTimeout
    \/ InfluxdbApi
    \/ GrafanaStage
    \/ SetupGrafana
    \/ GrafanaProbe
    \/ GrafanaTimeout
    \/ SetupBackupConfig
    \/ SetupSnapshotsConfig
    \/ AddSchedule
    \/ BeginHost
    \/ AddPath
    \/ CommitHost
    \/ EndHosts
    \/ InstallScriptsAndService
    \/ SaveConfigurations
    \/ Interrupt

\* a run of the installer from the construction of BackupSystemInstaller
Spec == Init /\ [][Next]_vars

-----------------------------------------------------------------------------
(* The dialogue in depth: runs that start where run_installer calls        *)
(* setup_backup_config, on a host where both services were found running   *)
(* and the operator entered the token of the existing metrics store.       *)

ElicitStart ==
    /\ pc = "backup_config"
    /\ exit_code = -1
    /\ is_root = TRUE
    /\ package_manager = "apt"
    /\ firewall_manager = "ufw"
    /\ HAS_YAML = TRUE
    /\ HAS_REQUESTS = TRUE
    /\ existing = [influxdb |-> TRUE, influxdb_port |-> TRUE,
                   grafana |-> TRUE, grafana_port |-> TRUE]
    /\ influxdb_config = InfluxConfig("tok-operator", "home", "backup")
    /\ grafana_installed = TRUE
    /\ backup_config = EmptyDict
    /\ config = EmptyDict
    /\ is_btrfs = FALSE
    /\ hostname = ""
    /\ host_config = EmptyDict
    /\ i = 0
    /\ out = {}
    /\ calls = <<"check_existing_services">>
    /\ history = [NoHistory EXCEPT !.stage = "dashboard"]
    /\ files = EmptyDict
    /\ backend = NoBackend

InitElicit == ElicitStart /\ cap \in DeepCap

NextElicit ==
    \/ SetupBackupConfig
    \/ SetupSnapshotsConfig
    \/ AddSchedule
    \/ BeginHost
    \/ AddPath
    \/ CommitHost
    \/ EndHosts
    \/ InstallScriptsAndService
    \/ SaveConfigurations

SpecElicit == InitElicit /\ [][NextElicit]_vars

\* The dialogue with an operator who answers: input() blocks until a line is
\* typed and the installer is a single thread, so the statement that is next
\* is executed once the operator has answered its prompts. The numbers of
\* schedules, hosts and paths the operator adds before declining are those of
\* cap, one loop of the dialogue being long at a time.
LoopCap == {[hosts |-> MaxHostEntries, paths |-> 1, schedules |-> 0],
            [hosts |-> 1, paths |-> MaxPaths, schedules |-> 0],
            [hosts |-> 1, paths |-> 0, schedules |-> MaxSchedules]}
InitElicitFair == ElicitStart /\ cap \in LoopCap
ElicitFairness ==
    /\ WF_vars(SetupBackupConfig)
    /\ WF_vars(SetupSnapshotsConfig)
    /\ WF_vars(AddSchedule)
    /\ WF_vars(BeginHost \/ EndHosts)
    /\ WF_vars(AddPath \/ CommitHost)
    /\ WF_vars(InstallScriptsAndService)
    /\ WF_vars(SaveConfigurations)

SpecElicitFair == InitElicitFair /\ [][NextElicit]_vars /\ ElicitFairness

-----------------------------------------------------------------------------
(* The backend functions on their own: install_packages and                *)
(* configure_firewall called on every environment, with every outcome of   *)
(* the commands they run.                                                  *)

PortLists == {<<>>, <<8086>>, <<3000>>, <<8086, 3000>>}
ServiceLists == {<<>>, <<"ssh">>}

InitBackend ==
    /\ pc = "backend"
    /\ exit_code = -1
    /\ is_root \in BOOLEAN
    /\ package_manager \in PackageManagers
    /\ firewall_manager \in FirewallManagers
    /\ HAS_YAML = TRUE
    /\ HAS_REQUESTS = TRUE
    /\ existing = EmptyDict
    /\ influxdb_config = EmptyDict
    /\ grafana_installed = FALSE
    /\ backup_config = EmptyDict
    /\ config = EmptyDict
    /\ is_btrfs = FALSE
    /\ hostname = ""
    /\ host_config = EmptyDict
    /\ i = 0
    /\ out = {}
    /\ calls = <<>>
    /\ history = NoHistory
    /\ files = EmptyDict
    /\ backend = NoBackend
    /\ cap = ShallowCap

\* a call of install_packages; an 'apt update' or an install command that
\* fails is recorded by its first word
CallInstallPackages ==
    /\ pc = "backend"
    /\ \E updateOk \in BOOLEAN, installOk \in BOOLEAN :
        LET r == InstallPackages(is_root, package_manager, updateOk, installOk)
        IN backend' = [NoBackend EXCEPT
                         !.call = "install_packages",
                         !.failing = (IF updateOk THEN {} ELSE {<<"update">>})
                                     \cup (IF installOk THEN {} ELSE {<<"install">>}),
                         !.ret = r.ret,
                         !.raised = r.raised]
    /\ UNCHANGED <<pc, exit_code, envVars, flagVars, existing, influxdb_config,
                   grafana_installed, backup_config, elicitVars, i, out, calls,
                   history, files, cap>>

\* a call of configure_firewall
CallConfigureFirewall ==
    /\ pc = "backend"
    /\ \E ports \in PortLists, services \in ServiceLists, hasSave \in BOOLEAN :
        \E failing \in SUBSET FirewallCommands(firewall_manager, ports, services) :
            LET r == ConfigureFirewall(is_root, firewall_manager, ports,
                                       services, failing, hasSave)
            IN backend' = [call |-> "configure_firewall", ports |-> ports,
                           services |-> services, failing |-> failing,
                           ret |-> r.ret, raised |-> r.raised,
                           issued |-> r.issued]
    /\ UNCHANGED <<pc, exit_code, envVars, flagVars, existing, influxdb_config,
                   grafana_installed, backup_config, elicitVars, i, out, calls,
                   history, files, cap>>

NextBackend ==
    \/ CallInstallPackages
    \/ CallConfigureFirewall

SpecBackend == InitBackend /\ [][NextBackend]_vars

\* run_installer, lines 916-922, as a call of its own: the script/service
\* stage on every outcome of its steps, and whether save_configurations is
\* reached
CallScriptStage ==
    /\ pc = "backend"
    /\ \E st \in ScriptStatuses, outcome \in ServiceOutcomes :
        LET made == ScriptStageCalls(is_root, st)
            scripts == InstallBackupScripts(is_root, st)
            serves == \E k \in DOMAIN made : made[k] = "create_systemd_service"
            service == CreateSystemdService(is_root, outcome)
            raised == made # <<>> /\ (scripts.raised \/ (serves /\ service.raised))
        IN backend' =
             [call |-> "script_stage", statuses |-> st, outcome |-> outcome,
              calls |-> made \o (IF raised THEN <<>>
                                 ELSE <<"save_configurations">>),
              scripts |-> IF made = <<>> THEN "uncalled" ELSE Text(scripts.ret),
              service |-> IF serves THEN Text(service.ret) ELSE "uncalled",
              installed |-> IF made = <<>> THEN {} ELSE scripts.installed,
              timer |-> IF serves THEN service.timer ELSE "absent",
              ret |-> FALSE, raised |-> raised]
    /\ UNCHANGED <<pc, exit_code, envVars, flagVars, existing, influxdb_config,
                   grafana_installed, backup_config, elicitVars, i, out, calls,
                   history, files, cap>>

NextStage == CallScriptStage

SpecStage == InitBackend /\ [][NextStage]_vars

-----------------------------------------------------------------------------
(* The construction of BackupSystemInstaller on its own: the detection of  *)
(* the package manager and of the firewall manager, on every distribution  *)
(* and every set of tools on the search path.                              *)

\* _detect_package_manager, lines 117-123: the managers dict, in insertion
\* order, and the distributions each manager is declared for
ManagerOrder == <<"apt", "dnf", "zypper", "pacman", "yum">>
ManagerDistros ==
    [apt |-> {"debian", "ubuntu"},
     dnf |-> {"fedora", "centos", "rhel"},
     zypper |-> {"opensuse", "suse"},
     pacman |-> {"arch"},
     yum |-> {"centos", "rhel"}]

\* ID and ID_LIKE of /etc/os-release, as _detect_distribution returns them
DistroIds == {"debian", "Ubuntu", "linuxmint", "fedora", "centos", "rocky",
              "opensuse", "opensuse-leap", "arch", "alpine", "unknown"}
DistroLikes == {"", "debian", "ubuntu debian", "rhel centos fedora",
                "suse opensuse", "archlinux"}

\* str.lower() on the identifiers above
Lower(s) == IF s = "Ubuntu" THEN "ubuntu" ELSE s

\* d in distro_like: the substring test on the ID_LIKE values above
IsSubstring(d, s) ==
    CASE s = "debian" -> d = "debian"
      [] s = "ubuntu debian" -> d \in {"ubuntu", "debian"}
      [] s = "rhel centos fedora" -> d \in {"rhel", "centos", "fedora"}
      [] s = "suse opensuse" -> d \in {"suse", "opensuse"}
      [] s = "archlinux" -> d = "arch"
      [] OTHER -> FALSE

\* _detect_package_manager, line 129: the manager is declared for the
\* distribution, by its id or by a name found in id_like
DeclaredFor(manager, id, like) ==
    \/ Lower(id) \in ManagerDistros[manager]
    \/ \E d \in ManagerDistros[manager] : IsSubstring(d, Lower(like))

\* the first manager of the order that is in ok, or 'unknown'
RECURSIVE FirstManager(_, _)
FirstManager(order, ok) ==
    IF order = <<>> THEN "unknown"
    ELSE IF Head(order) \in ok THEN Head(order)
    ELSE FirstManager(Tail(order), ok)

\* _detect_package_manager(), lines 115-138: path is the set of managers
\* shutil.which finds
DetectPackageManager(id, like, path) ==
    LET declared == {m \in path \cap DOMAIN ManagerDistros :
                        DeclaredFor(m, id, like)}
    IN IF declared # {} THEN FirstManager(ManagerOrder, declared)
       ELSE FirstManager(ManagerOrder, path)

\* _detect_firewall(), lines 140-149: tools is the set of firewall tools
\* shutil.which finds
DetectFirewall(tools) ==
    IF "ufw" \in tools THEN "ufw"
    ELSE IF "firewall-cmd" \in tools THEN "firewalld"
    ELSE IF "iptables" \in tools THEN "iptables"
    ELSE "none"

InitDetect ==
    /\ pc = "construct"
    /\ exit_code = -1
    /\ is_root \in BOOLEAN
    /\ package_manager = ""
    /\ firewall_manager = ""
    /\ HAS_YAML = TRUE
    /\ HAS_REQUESTS = TRUE
    /\ existing = EmptyDict
    /\ influxdb_config = EmptyDict
    /\ grafana_installed = FALSE
    /\ backup_config = EmptyDict
    /\ config = EmptyDict
    /\ is_btrfs = FALSE
    /\ hostname = ""
    /\ host_config = EmptyDict
    /\ i = 0
    /\ out = {}
    /\ calls = <<>>
    /\ history = NoHistory
    /\ files = EmptyDict
    /\ backend = NoBackend
    /\ cap = ShallowCap

\* BackupSystemInstaller.__init__, lines 49-56
Construct ==
    /\ pc = "construct"
    /\ \E id \in DistroIds, like \in DistroLikes,
          path \in SUBSET DOMAIN ManagerDistros,
          tools \in SUBSET {"ufw", "firewall-cmd", "iptables"} :
        /\ package_manager' = DetectPackageManager(id, like, path)
        /\ firewall_manager' = DetectFirewall(tools)
        /\ backend' = [call |-> "__init__", id |-> id, id_like |-> like,
                       path |-> path, tools |-> tools]
    /\ pc' = "start"
    /\ UNCHANGED <<exit_code, is_root, flagVars, existing, influxdb_config,
                   grafana_installed, backup_config, elicitVars, i, out, calls,
                   history, files, cap>>

NextDetect == Construct

SpecDetect == InitDetect /\ [][NextDetect]_vars

-----------------------------------------------------------------------------
(* The prompts on their own: ask_input, ask_yes_no and the questions asked *)
(* for one backup path, on every sequence of answers that lets them        *)
(* return.                                                                 *)

\* the answers the operator types at one prompt and its repetitions
MaxAnswers == 3
RawAnswers == {"", " ", "data", " web1 "}
\* ask_input returns at the first answer that is not blank, which a prompt
\* without default needs: the lists of at most MaxAnswers answers that end
\* with one
AnswerLists ==
    {a \in UNION {[1..n -> RawAnswers] : n \in 1..MaxAnswers} :
        Strip(a[Len(a)]) # ""}
InputDefaults == {"", "backup"}

\* ask_input, lines 82-92: the number of times input() is called
RECURSIVE Prompts(_, _)
Prompts(answers, default) ==
    IF default # "" \/ Strip(Head(answers)) # "" THEN 1
    ELSE 1 + Prompts(Tail(answers), default)

InitPrompt ==
    /\ pc = "prompt"
    /\ exit_code = -1
    /\ is_root = TRUE
    /\ package_manager = "apt"
    /\ firewall_manager = "ufw"
    /\ HAS_YAML = TRUE
    /\ HAS_REQUESTS = TRUE
    /\ existing = EmptyDict
    /\ influxdb_config = EmptyDict
    /\ grafana_installed = FALSE
    /\ backup_config = EmptyDict
    /\ config = EmptyDict
    /\ is_btrfs = FALSE
    /\ hostname = ""
    /\ host_config = EmptyDict
    /\ i = 0
    /\ out = {}
    /\ calls = <<>>
    /\ history = NoHistory
    /\ files = EmptyDict
    /\ backend = NoBackend
    /\ cap = ShallowCap

\* a call of ask_input
CallAskInput ==
    /\ pc = "prompt"
    /\ \E answers \in AnswerLists, default \in InputDefaults :
        backend' = [call |-> "ask_input", answers |-> answers,
                    default |-> default,
                    value |-> AskInput(answers, default),
                    prompts |-> Prompts(answers, default)]
    /\ UNCHANGED <<pc, exit_code, envVars, flagVars, existing, influxdb_config,
                   grafana_installed, backup_config, elicitVars, i, out, calls,
                   history, files, cap>>

\* a call of ask_yes_no
CallAskYesNo ==
    /\ pc = "prompt"
    /\ \E answer \in YesNoAnswers, default \in BOOLEAN :
        backend' = [call |-> "ask_yes_no", answer |-> answer,
                    default |-> default, value |-> AskYesNo(answer, default)]
    /\ UNCHANGED <<pc, exit_code, envVars, flagVars, existing, influxdb_config,
                   grafana_installed, backup_config, elicitVars, i, out, calls,
                   history, files, cap>>

\* setup_hosts_config, lines 610-619: the questions asked for one backup path
CallPathQuestions ==
    /\ pc = "prompt"
    /\ \E entry \in PathEntries, subdir \in AnswerLists :
        backend' = [call |-> "path_questions", subdir |-> subdir,
                    prompts |-> Prompts(subdir, ""),
                    path_config |->
                        NewPathConfig(AskInput(entry.path, "/etc"),
                                      AskInput(subdir, ""),
                                      AskYesNo(entry.exclude, FALSE),
                                      entry.file)]
    /\ UNCHANGED <<pc, exit_code, envVars, flagVars, existing, influxdb_config,
                   grafana_installed, backup_config, elicitVars, i, out, calls,
                   history, files, cap>>

NextPrompt ==
    \/ CallAskInput
    \/ CallAskYesNo
    \/ CallPathQuestions

SpecPrompt == InitPrompt /\ [][NextPrompt]_vars

-----------------------------------------------------------------------------
(* Properties.                                                             *)

Tokens == {MintedToken, "tok-operator"}
Exited(code) == pc = "exited" /\ exit_code = code
SummaryPrinted == Msg("header", "Installation Complete!", "") \in out
\* the dialogue is over and the operator has added no host
NoHostAdded ==
    /\ pc \in {"scripts", "save", "done", "exited"}
    /\ history.stage \in {"elicitation", "scripts", "persistence"}
    /\ history.entries = 0
\* the dialogue is over, the operator has added hosts, each with a path
HostsWithPathsAdded ==
    /\ pc \in {"scripts", "save", "done", "exited"}
    /\ history.entries > 0
    /\ \A h \in DOMAIN history.latest : Len(history.latest[h].paths) >= 1

\* C1: when the operator adds no host, the configuration build fails: the
\* process exits with a non-zero code and save_configurations is not called.
C1_ZeroHostsRejected ==
    NoHostAdded => Exited(1) /\ ~Called("save_configurations")

\* C2: a failure inside the metrics-store stage does not end the run: the
\* process never exits while the metrics-store stage is the stage entered
\* last, so the dashboard stage is always gone on to.
C2_MetricsFailureIsolated ==
    pc = "exited" => history.stage # "metrics"

\* C3: a failed save_configurations is fatal: the process exits with a
\* non-zero code and the 'Installation Complete!' summary is not printed.
C3_PersistenceFailureFatal ==
    history.saved \in {"False", "raised"} => Exited(1) /\ ~SummaryPrinted

\* C4: the document handed to save_configurations has the 'snapshots' key if
\* and only if the destination was found on BTRFS and the operator answered
\* yes to 'Configure BTRFS snapshots?'; when save_configurations returns
\* True, backup.yaml holds that document.
C4_SnapshotsIffCapableAndOptedIn ==
    /\ Truthy(backup_config) =>
         (HasKey(backup_config, "snapshots")
            <=> (is_btrfs /\ history.opted_in = "yes"))
    /\ Saved => files["backup"] = backup_config

\* C4, witness: a document saved with a snapshots section whose schedule list
\* is empty, the operator having opted in and added no schedule
C4_Witness ==
    /\ Saved
    /\ is_btrfs /\ history.opted_in = "yes"
    /\ HasKey(files["backup"], "snapshots")
    /\ files["backup"].snapshots.schedules = <<>>

\* C5: no message printed carries the token of a metrics-store configuration.
C5_TokenNeverPrinted ==
    \A m \in out : m[3] \notin Tokens

\* C6: install_packages and configure_firewall return True or False; no
\* exception leaves them.
C6_BackendReturnsBoolean ==
    backend.call # "none" => ~backend.raised /\ backend.ret \in BOOLEAN

\* C7: a polling loop makes at most PollAttempts probes; a timeout is
\* reported after exactly PollAttempts probes, with the empty configuration
\* (metrics store) or False (dashboard) as the outcome, and no probe is made
\* outside the loops.
C7_PollingBounded ==
    /\ i <= PollAttempts
    /\ pc \notin {"influxdb_poll", "grafana_poll"} => i = 0
    /\ history.influx_timeout \in {0, PollAttempts}
    /\ history.grafana_timeout \in {0, PollAttempts}
    /\ history.influx_timeout # 0 /\ history.stage = "metrics" =>
         pc = "grafana" /\ influxdb_config = EmptyDict
    /\ history.grafana_timeout # 0 /\ history.stage = "dashboard" =>
         pc = "backup_config" /\ ~grafana_installed

\* C7, witness: both polling loops have run out in one run
C7_Witness ==
    /\ history.influx_timeout = PollAttempts
    /\ history.grafana_timeout = PollAttempts
    /\ pc = "backup_config"

\* C8: once setup_influxdb has timed out, the metrics store counts as
\* unconfigured for the rest of the run: influxdb_config is empty when
\* setup_grafana is called (no metrics-store line is printed), and it is the
\* empty configuration that a save_configurations which returns True has
\* put in influxdb-config.yaml; the run does not end in the metrics-store
\* stage, and it ends before the dialogue only if a command of the dashboard
\* stage raises or the operator interrupts it.
C8_TimeoutRecoverable ==
    history.influx_timeout # 0 =>
        /\ influxdb_config = EmptyDict
        /\ \A m \in out : m[2] \notin {"Token", "Organization", "Default Bucket"}
        /\ Saved => files["influx"].influxdb = EmptyDict
        /\ pc = "exited" => history.stage # "metrics"
        /\ pc = "exited" /\ history.stage = "dashboard" =>
             history.uncaught \in {"CalledProcessError", "KeyboardInterrupt"}
        /\ pc = "done" => Called("setup_backup_config")

\* C8, witness: after a timeout of setup_influxdb the dashboard was set up,
\* the dialogue was held and the empty configuration was written
C8_Witness ==
    /\ history.influx_timeout # 0
    /\ Called("setup_grafana") /\ grafana_installed
    /\ Called("setup_backup_config")
    /\ Saved /\ files["influx"].influxdb = EmptyDict
    /\ pc = "done"

\* C9: when the operator has added hosts, each with at least one path, and
\* declined a further host, setup_backup_config returns a non-empty document
\* whose hosts are exactly the hosts entered, and run_installer goes on to
\* save_configurations with it; when that call returns True, backup.yaml
\* holds the document.
C9_HostsWithPathsAccepted ==
    HostsWithPathsAdded =>
        /\ Truthy(backup_config)
        /\ backup_config.hosts = history.latest
        /\ pc \in {"done", "exited"} => Called("save_configurations")
        /\ Saved => files["backup"] = backup_config

\* C9, witness: two hosts with a path each were entered and saved
C9_Witness ==
    /\ HostsWithPathsAdded
    /\ Cardinality(DOMAIN backup_config.hosts) = 2
    /\ history.saved = "True"
    /\ pc = "done"

\* C10: the host mapping holds, per identifier, exactly the host_config
\* entered last for it, so an identifier entered again replaces its entry as
\* a whole and adds no key.
C10_LastWriteWins ==
    HasKey(config, "hosts") =>
        /\ config.hosts = history.latest
        /\ Cardinality(DOMAIN config.hosts) <= history.entries
        /\ pc = "hosts" /\ history.entries > 0 =>
             config.hosts[hostname] = host_config

\* C10, witness: the second entry used the identifier of the first, with a
\* different host_config, and the mapping has one key
C10_Witness ==
    /\ pc = "hosts"
    /\ history.entries = 2
    /\ history.overwrote
    /\ Cardinality(DOMAIN config.hosts) = 1
    /\ ~HasKey(config.hosts[hostname], "ssh_user")

\* the backend families and the managers of each: the managers
\* install_packages has a command for, lines 191-197, with dnf and yum as
\* one family, as the installers take them (Fedora/RHEL/CentOS, lines 302,
\* 356 and 780)
PackageFamilies ==
    [debian |-> {"apt"}, redhat |-> {"dnf", "yum"}, suse |-> {"zypper"},
     arch |-> {"pacman"}]

\* the distributions of a family: those the managers dict, lines 117-123,
\* names for a manager of the family
FamilyDistros(family) == UNION {ManagerDistros[m] : m \in PackageFamilies[family]}

\* the families a distribution belongs to, by its id or by a name found in
\* id_like
FamiliesOf(id, like) ==
    {f \in DOMAIN PackageFamilies :
        \/ Lower(id) \in FamilyDistros(f)
        \/ \E d \in FamilyDistros(f) : IsSubstring(d, Lower(like))}

\* C11: for a distribution whose id and id_like place it in one supported
\* family, when a package manager of that family is on the search path,
\* _detect_package_manager returns a manager of that family, whatever
\* managers of other families are there as well.
C11_FamilyManagerSelected ==
    backend.call = "__init__" =>
        \A f \in DOMAIN PackageFamilies :
            /\ FamiliesOf(backend.id, backend.id_like) = {f}
            /\ backend.path \cap PackageFamilies[f] # {}
            => package_manager \in PackageFamilies[f]

\* C12: when the probe finds the metrics store active or port 8086 open,
\* install_influxdb and setup_influxdb are never called; when it finds the
\* dashboard server active or port 3000 open, install_grafana and
\* setup_grafana are never called.
C12_ExistingServiceNotInstalled ==
    Called("check_existing_services") =>
        /\ existing["influxdb"] \/ existing["influxdb_port"] =>
             ~Called("install_influxdb") /\ ~Called("setup_influxdb")
        /\ existing["grafana"] \/ existing["grafana_port"] =>
             ~Called("install_grafana") /\ ~Called("setup_grafana")

\* C12, witness: a run to the end on a host where the metrics store only
\* listens on its port and the dashboard unit is only active, with the
\* existing metrics store taken over
C12_Witness ==
    /\ pc = "done"
    /\ ~existing["influxdb"] /\ existing["influxdb_port"]
    /\ existing["grafana"] /\ ~existing["grafana_port"]
    /\ Truthy(influxdb_config) /\ grafana_installed

\* the operator interrupted a prompt of setup_influxdb, which did not return
InterruptedInSetup ==
    /\ history.interrupt # "none"
    /\ history.stage = "metrics"
    /\ history.api # <<>>

\* C13: when the setup-status GET reports that setup is no longer allowed,
\* setup_influxdb sends no POST and returns the token, organization and
\* bucket the operator enters (it returns nothing when the operator
\* interrupts these prompts instead).
C13_NoSetupWhenConfigured ==
    history.setup = "closed" =>
        /\ history.api = <<"GET">>
        /\ InterruptedInSetup \/ influxdb_config =
             [host |-> "localhost", port |-> "8086", token |-> "tok-operator",
              organization |-> "home", bucket |-> "backup"]

\* C13, witness: setup_influxdb has returned the operator's values of a
\* metrics store that was configured before
C13_Witness ==
    /\ history.setup = "closed"
    /\ Called("setup_influxdb")
    /\ pc = "grafana"
    /\ influxdb_config.token = "tok-operator"

\* the POST of the setup API was answered with another status than 201, or
\* failed on the network
SetupPostFailed == history.post \in {"error_status", "network_error"}

\* C14: when the setup POST is answered with a status other than 201 or
\* fails on the network, setup_influxdb returns the empty configuration, which
\* is what influxdb-config.yaml holds when save_configurations returns True;
\* the run does not end in the metrics-store stage, the
\* dashboard stage is entered, and the run ends before the dialogue only if a
\* command of the dashboard stage raises or the operator interrupts it.
C14_SetupFailureGivesEmptyConfig ==
    SetupPostFailed =>
        /\ influxdb_config = EmptyDict
        /\ Saved => files["influx"].influxdb = EmptyDict
        /\ pc = "exited" => history.stage # "metrics"
        /\ pc = "exited" /\ history.stage = "dashboard" =>
             history.uncaught \in {"CalledProcessError", "KeyboardInterrupt"}
        /\ pc = "done" => Called("setup_backup_config")

\* C14, witness: the POST failed on the network, the dashboard was set up and
\* the dialogue held, and the run ended with the empty configuration saved
C14_Witness ==
    /\ history.post = "network_error"
    /\ Called("setup_grafana") /\ Called("setup_backup_config")
    /\ Saved /\ files["influx"].influxdb = EmptyDict
    /\ pc = "done"

\* C15: when the setup API fails (a status other than 201, or a network
\* failure), the error is reported and the operator is asked for token,
\* organization and bucket, which become the metrics-store configuration.
C15_SetupFailureFallsBackToOperator ==
    SetupPostFailed =>
        /\ \E m \in out : m[1] = "error" /\ m[2] \in {"InfluxDB setup failed",
                                                      "Failed to configure InfluxDB"}
        /\ Truthy(influxdb_config)
        /\ influxdb_config.token = "tok-operator"

RemoteFields == {"ssh_user", "hostname", "ssh_key", "ignore_ping"}

\* C16: every host_config committed to the host mapping has all of ssh_user,
\* hostname, ssh_key and ignore_ping, or none of them.
C16_RemoteFieldsAllOrNothing ==
    HasKey(config, "hosts") =>
        \A h \in DOMAIN config.hosts :
            RemoteFields \cap DOMAIN config.hosts[h] \in {{}, RemoteFields}

\* C17: when the operator's answer to the destination-subdirectory prompt is
\* empty, the prompt is shown once and the path_config has no dest_subdir.
C17_DestSubdirOptional ==
    backend.call = "path_questions" /\ Strip(Head(backend.subdir)) = "" =>
        /\ backend.prompts = 1
        /\ ~HasKey(backend.path_config, "dest_subdir")

\* the position of the first call of f in the call history
FirstCall(f) == CHOOSE k \in DOMAIN calls :
                    calls[k] = f /\ \A j \in 1..(k - 1) : calls[j] # f

\* C18: in a privileged run on an apt and ufw system with no metrics store
\* running, where the operator accepts the defaults, every command succeeds
\* and the setup POST answers 201, install_influxdb, setup_influxdb and
\* configure_firewall([8086]) are called in this order, the firewall command
\* is 'ufw allow 8086', and the configuration has a token that is not empty.
C18_DebianScenario ==
    /\ is_root /\ package_manager = "apt" /\ firewall_manager = "ufw"
    /\ history.post = "201"
    =>
    /\ ~existing["influxdb"] /\ ~existing["influxdb_port"]
    /\ Called("install_influxdb") /\ Called("setup_influxdb")
    /\ Called("configure_firewall(8086)")
    /\ FirstCall("install_influxdb") < FirstCall("setup_influxdb")
    /\ FirstCall("setup_influxdb") < FirstCall("configure_firewall(8086)")
    /\ ConfigureFirewall(is_root, firewall_manager, <<8086>>, <<>>, {}, FALSE)
         = [ret |-> TRUE, raised |-> FALSE,
            issued |-> << <<"ufw", "allow", "8086">> >>]
    /\ Truthy(influxdb_config) /\ influxdb_config.token # ""
    /\ history.api = <<"GET", "POST">>

\* C18, witness: the scenario has run to the end and the configuration with
\* the minted token is saved
C18_Witness ==
    /\ is_root /\ package_manager = "apt" /\ firewall_manager = "ufw"
    /\ history.post = "201"
    /\ Called("configure_firewall(8086)")
    /\ pc = "done"
    /\ HoldsDocument("influx") /\ files["influx"].influxdb.token = MintedToken

\* C19: an operator interrupt at a prompt, at any stage, is never swallowed
\* by an inner handler and never leaves the process uncaught: main() catches
\* it, and the process ends with exit code 1 without going on.
C19_InterruptEndsRun ==
    history.interrupt # "none" =>
        /\ history.interrupt = "caught"
        /\ Exited(1)
        /\ history.uncaught = "KeyboardInterrupt"
        /\ Msg("warning", "Installation cancelled by user", "") \in out
        /\ Msg("error", "Installation failed", "KeyboardInterrupt") \notin out
        /\ ~SummaryPrinted

\* C19, witness: the version question of install_influxdb on a dnf system,
\* asked inside a try block with 'except Exception', was interrupted
C19_Witness ==
    /\ history.interrupt = "caught"
    /\ package_manager = "dnf"
    /\ history.stage = "metrics"
    /\ Called("install_influxdb") /\ ~Called("setup_influxdb")
    /\ ~existing["influxdb"] /\ ~existing["influxdb_port"]
    /\ Exited(1)

\* C20: when the destination is not on BTRFS and the operator declines
\* 'Continue without snapshots?', setup_backup_config returns the empty
\* document without entering the host loop, the process exits with a
\* non-zero code, and save_configurations is not called.
C20_DeclinedWithoutSnapshotsAborts ==
    history.without = "no" =>
        /\ ~is_btrfs
        /\ backup_config = EmptyDict
        /\ history.entries = 0 /\ hostname = ""
        /\ Msg("error", "At least one host must be configured", "") \notin out
        /\ Msg("error", "BTRFS filesystem required for snapshots", "") \in out
        /\ Msg("error", "Backup configuration failed", "") \in out
        /\ Exited(1)
        /\ ~Called("save_configurations") /\ files = EmptyDict

\* C20, witness: the operator declined and the run has ended
C20_Witness ==
    /\ history.without = "no"
    /\ Called("setup_backup_config")
    /\ pc = "exited"

\* a command that was started and did not fail names the word as an argument
RuleIssued(words) ==
    \E k \in DOMAIN backend.issued :
        /\ backend.issued[k] \notin backend.failing
        /\ backend.issued[k][1] \in {"ufw", "firewall-cmd", "iptables"}
        /\ \E j \in DOMAIN backend.issued[k] : backend.issued[k][j] \in words

\* C21: when configure_firewall returns True, an allow rule was issued for
\* every port and for every service name it was called with, whatever the
\* firewall variant.
C21_SuccessMeansEveryRuleIssued ==
    backend.call = "configure_firewall" /\ backend.ret =>
        /\ \A k \in DOMAIN backend.ports :
              RuleIssued({PortStr(backend.ports[k]), PortTcp(backend.ports[k])})
        /\ \A k \in DOMAIN backend.services :
              RuleIssued({backend.services[k]})

\* the dashboard stage took the branch of a server that is already running
DashboardSkipped == grafana_installed /\ ~Called("install_grafana")

\* C22: the dashboard stage is skipped exactly when the dashboard server is
\* up at the time the stage begins, after the metrics-store stage, whatever
\* the probe at the start of the run had found.
C22_DashboardDecisionOnFreshState ==
    history.dashboard_now # "unknown" =>
        (DashboardSkipped <=> history.dashboard_now = "up")

\* C23: in a run without root privileges install_backup_scripts and
\* create_systemd_service are never called and no script, unit file or timer
\* is written, while the dialogue is held and save_configurations is called
\* as in any run.
C23_UnprivilegedSkipsScripts ==
    ~is_root =>
        /\ ~Called("install_backup_scripts")
        /\ ~Called("create_systemd_service")
        /\ history.attempted = {}
        /\ history.stage = "scripts" =>
             pc = "save" /\ Called("setup_backup_config")
        /\ pc = "done" =>
             Called("setup_backup_config") /\ Called("save_configurations")

\* C23, witness: a run without root privileges has held the dialogue, saved
\* the configuration and ended
C23_Witness ==
    /\ ~is_root
    /\ pc = "done"
    /\ history.entries > 0
    /\ history.saved = "True"
    /\ HoldsDocument("backup")

\* C24: ask_input without a default asks again until an answer is not blank
\* and returns that first non-blank answer, trimmed, so never the empty
\* string; with a default it asks exactly once and returns the trimmed answer,
\* or the default when the answer is blank.
C24_AskInputContract ==
    backend.call = "ask_input" =>
        LET n == backend.prompts
            first == Strip(backend.answers[1])
        IN IF backend.default = ""
           THEN /\ n \in DOMAIN backend.answers
                /\ \A k \in 1..(n - 1) : Strip(backend.answers[k]) = ""
                /\ Strip(backend.answers[n]) # ""
                /\ backend.value = Strip(backend.answers[n])
                /\ backend.value # ""
           ELSE /\ n = 1
                /\ backend.value = IF first # "" THEN first ELSE backend.default

\* C24, witness: without a default two blank answers are refused and the
\* third, typed with spaces around it, is returned trimmed
C24_Witness ==
    /\ backend.call = "ask_input"
    /\ backend.default = ""
    /\ backend.answers = <<"", " ", " web1 ">>
    /\ backend.prompts = 3
    /\ backend.value = "web1"

\* C25: when a Python dependency is missing and the operator answers no to
\* 'Install missing dependencies now?', the run exits with code 1 and nothing
\* has been probed, installed, asked about the backup configuration or
\* written.
C25_DeclinedDependenciesExit ==
    history.declined =>
        /\ Exited(1)
        /\ history.stage = "dependencies"
        /\ ~HAS_YAML \/ ~HAS_REQUESTS
        /\ calls = <<>>
        /\ existing = EmptyDict
        /\ influxdb_config = EmptyDict
        /\ ~grafana_installed
        /\ backup_config = EmptyDict
        /\ history.entries = 0
        /\ history.attempted = {}
        /\ files = EmptyDict

\* C25, witness: PyYAML is missing, the operator has declined and the run
\* has exited
C25_Witness ==
    /\ history.declined
    /\ ~HAS_YAML
    /\ HAS_REQUESTS
    /\ pc = "exited"
    /\ exit_code = 1

\* the stages of run_installer, in the order of its text
StageOrder ==
    <<"start", "dependencies", "privilege", "probe", "metrics", "dashboard",
      "elicitation", "scripts", "persistence">>
StageRank(stage) == CHOOSE k \in DOMAIN StageOrder : StageOrder[k] = stage
\* the stage each recorded call belongs to
CallStage(f) ==
    CASE f = "check_existing_services" -> "probe"
      [] f \in {"install_influxdb", "setup_influxdb", "configure_firewall(8086)"}
           -> "metrics"
      [] f \in {"install_grafana", "setup_grafana", "configure_firewall(3000)"}
           -> "dashboard"
      [] f = "setup_backup_config" -> "elicitation"
      [] f \in {"install_backup_scripts", "create_systemd_service"} -> "scripts"
      [] f = "save_configurations" -> "persistence"
\* the calls made so far are in the order of the stages, and what has been
\* saved and summarised was preceded by all of them
StagesInOrder ==
    /\ \A j, k \in DOMAIN calls :
          j < k => StageRank(CallStage(calls[j])) <= StageRank(CallStage(calls[k]))
    /\ \A k \in DOMAIN calls :
          StageRank(CallStage(calls[k])) <= StageRank(history.stage)
    /\ Called("save_configurations") =>
          /\ Cardinality({k \in DOMAIN calls : calls[k] = "save_configurations"}) = 1
          /\ calls[Len(calls)] = "save_configurations"
          /\ calls[1] = "check_existing_services"
          /\ Called("setup_backup_config")
          /\ history.stage = "persistence"
          /\ Truthy(backup_config)
          /\ backup_config = config
          /\ Saved => files["backup"] = backup_config
          /\ Saved => files["influx"]["influxdb"] = influxdb_config
    /\ SummaryPrinted => Called("save_configurations") /\ pc = "done"
\* a step enters the next stage or none, and leaves both configurations as
\* they are once save_configurations has been called
StageStep ==
    /\ StageRank(history'.stage) \in
          {StageRank(history.stage), StageRank(history.stage) + 1}
    /\ Called("save_configurations") =>
          UNCHANGED <<backup_config, influxdb_config>>

\* C26: the stages of a run follow each other in the order probe, metrics
\* store, dashboard, dialogue, scripts and service, save_configurations,
\* summary; save_configurations is called at most once, with the non-empty
\* document setup_backup_config returned, and neither that document nor the
\* metrics-store configuration changes afterwards; when the call returns
\* True the two files hold them.
C26_StageOrderSinglePersistence ==
    []StagesInOrder /\ [][StageStep]_vars

\* C26, witness: a privileged run went through every stage, calling the
\* installers of both services and of the scripts, saved and summarised
C26_Witness ==
    /\ pc = "done"
    /\ SummaryPrinted
    /\ Called("setup_influxdb")
    /\ Called("setup_grafana")
    /\ Called("create_systemd_service")
    /\ history.entries > 0
    /\ history.saved = "True"

\* setup_backup_config has returned to run_installer, or the run has ended
DialogueReturned ==
    \/ pc \in {"scripts", "save", "done"} /\ Truthy(backup_config)
    \/ pc = "exited"
\* the run has printed its summary or the process has exited with code 1
RunEnded ==
    \/ pc = "done" /\ exit_code = 0 /\ SummaryPrinted
    \/ Exited(1)

\* C27: with an operator who answers every prompt and declines each 'add
\* another' question after finitely many entries, setup_backup_config
\* eventually returns and the run eventually reaches the summary or an exit
\* with code 1.
C27_DialogueTerminates ==
    /\ (pc = "backup_config") ~> DialogueReturned
    /\ <>RunEnded

\* C27, witness: the dialogue went twice through the host loop, with a path
\* for a host, returned, and the run reached the summary
C27_Witness ==
    /\ pc = "done"
    /\ exit_code = 0
    /\ history.entries = 2
    /\ \E h \in DOMAIN backup_config.hosts : Len(backup_config.hosts[h].paths) > 0

\* C27, witness of the schedule loop: two custom schedules were entered and
\* the run reached the summary
C27_WitnessSchedules ==
    /\ pc = "done"
    /\ exit_code = 0
    /\ Len(history.asked) = 2

\* the positions of backend.issued that hold the firewalld reload
ReloadsIssued == {k \in DOMAIN backend.issued : backend.issued[k] = FirewalldReload}
\* the firewalld rule commands of the call, ports first, then services
RulesAsked ==
    [k \in DOMAIN backend.ports |->
        <<"firewall-cmd", "--permanent", "--add-port", PortTcp(backend.ports[k])>>]
    \o [k \in DOMAIN backend.services |->
        <<"firewall-cmd", "--permanent", "--add-service", backend.services[k]>>]

\* C28: the firewalld variant of configure_firewall issues the reload exactly
\* once, after every port and service rule, when all of them succeeded; when a
\* rule fails no later rule and no reload is issued and the result is failure.
C28_FirewalldReloadAfterRules ==
    backend.call = "configure_firewall" /\ firewall_manager = "firewalld" /\ is_root =>
        LET rules == RulesAsked
            n == Len(backend.issued)
        IN IF \A k \in DOMAIN rules : rules[k] \notin backend.failing
           THEN /\ backend.issued = rules \o <<FirewalldReload>>
                /\ ReloadsIssued = {n}
                /\ backend.ret <=> FirewalldReload \notin backend.failing
           ELSE /\ ReloadsIssued = {}
                /\ ~backend.ret
                /\ n \in DOMAIN rules
                /\ backend.issued = SubSeq(rules, 1, n)
                /\ backend.issued[n] \in backend.failing
                /\ \A k \in 1..(n - 1) : backend.issued[k] \notin backend.failing

\* C28, witness: the first of three rules fails although the later ones and
\* the reload would succeed
C28_Witness ==
    /\ backend.call = "configure_firewall"
    /\ firewall_manager = "firewalld"
    /\ is_root
    /\ backend.ports = <<8086, 3000>>
    /\ backend.services = <<"ssh">>
    /\ backend.failing = {<<"firewall-cmd", "--permanent", "--add-port", "8086/tcp">>}
    /\ Len(backend.issued) = 1
    /\ ~backend.ret

\* C28, witness of the other case: three rules succeed and the reload follows
C28_WitnessReload ==
    /\ backend.call = "configure_firewall"
    /\ firewall_manager = "firewalld"
    /\ is_root
    /\ Len(backend.issued) = 4
    /\ backend.issued[4] = FirewalldReload
    /\ backend.ret

\* the number the operator enters by a text, blanks and defaults resolved
NumberEntered(text) ==
    CASE text = "1" -> 1
      [] text = "3" -> 3
      [] text = "7" -> 7
      [] text = "24" -> 24
\* the schedule list the answers of the operator describe
SchedulesEntered ==
    IF history.policy = "default"
    THEN << [type |-> "hourly", count |-> 6, interval |-> 14400],
            [type |-> "daily", count |-> 7, interval |-> 86400],
            [type |-> "weekly", count |-> 4, interval |-> 604800],
            [type |-> "monthly", count |-> 12, interval |-> 2592000] >>
    ELSE [k \in DOMAIN history.asked |->
            [type |-> history.asked[k].type,
             count |-> NumberEntered(history.asked[k].count),
             interval |-> NumberEntered(history.asked[k].hours) * 3600]]

\* C29: with the default policy accepted the schedule list is hourly, daily,
\* weekly, monthly, in this order; with the default declined it holds the
\* custom entries in the order they were entered, each with the count entered
\* and an interval of 3600 times the hours entered, and is empty when none was
\* entered.  The document returned carries that list, and so does
\* backup.yaml when save_configurations returns True.
C29_SchedulesAsEntered ==
    /\ history.policy # "unasked" =>
          /\ HasKey(config, "snapshots")
          /\ config.snapshots.schedules = SchedulesEntered
    /\ history.policy # "unasked" /\ Truthy(backup_config) =>
          backup_config.snapshots.schedules = SchedulesEntered
    /\ history.policy # "unasked" /\ Saved =>
          files["backup"].snapshots.schedules = SchedulesEntered

\* C29, witness: two custom schedules that differ in count and hours were
\* entered, one of them by the defaults, and the file holds both in order
C29_Witness ==
    /\ history.policy = "custom"
    /\ Len(history.asked) = 2
    /\ history.asked[1].count = "3" /\ history.asked[1].hours = "1"
    /\ history.asked[2].count = "7" /\ history.asked[2].hours = "24"
    /\ Saved
    /\ files["backup"].snapshots.schedules[1].interval = 3600
    /\ files["backup"].snapshots.schedules[2].interval = 86400

\* C29, witness of the default policy: the four schedules were saved
C29_WitnessDefault ==
    /\ history.policy = "default"
    /\ Saved
    /\ Len(files["backup"].snapshots.schedules) = 4

\* the paths of the committed entry of host h, read through the list object
\* the entry refers to
PathsOf(h) == history.lists[h]

\* C30: the path sequence of every committed host is the sequence of paths
\* entered for that host, in the order of entry, and the list of a host in
\* progress is the list of no committed host.
C30_PathsAsEnteredAndUnshared ==
    LET hosts == IF HasKey(config, "hosts") THEN config.hosts ELSE EmptyDict
    IN /\ \A h \in DOMAIN hosts :
             /\ hosts[h].paths = history.typed_for[h]
             /\ PathsOf(h) = history.typed_for[h]
       /\ history.sharers = {}
       /\ pc = "paths" =>
             /\ host_config.paths = history.typed
             /\ history.current = history.typed
       /\ Truthy(backup_config) => backup_config.hosts = hosts

\* C30, witness: two hosts were committed, each with its own paths, the first
\* with two different paths in the order entered, and the document returned
C30_Witness ==
    /\ Truthy(backup_config)
    /\ Cardinality(DOMAIN backup_config.hosts) = 2
    /\ \E g, h \in DOMAIN backup_config.hosts :
          /\ g # h
          /\ Len(backup_config.hosts[g].paths) = 2
          /\ backup_config.hosts[g].paths[1] # backup_config.hosts[g].paths[2]
          /\ Len(backup_config.hosts[h].paths) = 1
          /\ PathsOf(g) = backup_config.hosts[g].paths
          /\ PathsOf(h) = backup_config.hosts[h].paths

\* call f was made, and before the first call g
CalledBefore(f, g) ==
    \E j, k \in DOMAIN calls :
        /\ calls[j] = f /\ calls[k] = g /\ j < k
        /\ \A m \in 1..(k - 1) : calls[m] # g

\* C31: configure_firewall([8086]) is called only in a privileged run, after
\* setup_influxdb, which returned a configuration that is not empty, and
\* configure_firewall([3000]) only in a privileged run, after setup_grafana,
\* which returned True; neither is called for a service found running, nor
\* for one whose installation or setup failed.
C31_FirewallOnlyAfterSuccess ==
    /\ Called("configure_firewall(8086)") =>
          /\ is_root
          /\ CalledBefore("install_influxdb", "setup_influxdb")
          /\ CalledBefore("setup_influxdb", "configure_firewall(8086)")
          /\ Truthy(influxdb_config)
          /\ history.influx_timeout = 0
          /\ history.post = "201" \/ history.setup = "closed"
          /\ ~existing["influxdb"] /\ ~existing["influxdb_port"]
    /\ Called("configure_firewall(3000)") =>
          /\ is_root
          /\ CalledBefore("install_grafana", "setup_grafana")
          /\ CalledBefore("setup_grafana", "configure_firewall(3000)")
          /\ grafana_installed
          /\ history.grafana_timeout = 0
          /\ ~existing["grafana"] /\ ~existing["grafana_port"]
    /\ \A k \in DOMAIN calls :
          /\ calls[k] = "configure_firewall(8086)" => calls[k - 1] = "setup_influxdb"
          /\ calls[k] = "configure_firewall(3000)" => calls[k - 1] = "setup_grafana"

\* C31, witness: a privileged run installed and set up both services, opened
\* both ports and ended
C31_Witness ==
    /\ is_root
    /\ pc = "done"
    /\ Called("configure_firewall(8086)")
    /\ Called("configure_firewall(3000)")

\* C31, witness of the refusals: in a privileged run the setup POST of the
\* metrics store failed, the dashboard never came up, and no port was opened
C31_WitnessRefused ==
    /\ is_root
    /\ pc = "done"
    /\ Called("setup_influxdb") /\ history.post = "error_status"
    /\ Called("setup_grafana") /\ history.grafana_timeout > 0
    /\ ~Called("configure_firewall(8086)") /\ ~Called("configure_firewall(3000)")

\* the operator has declined a further path: the path loop of
\* setup_hosts_config is left
PathLoopLeft == pc = "paths" /\ pc' = "hosts"

\* C32: a host is committed with whatever paths were entered, none included:
\* when the path loop is left the host is in the mapping with the paths of
\* host_config, and when save_configurations returns True backup.yaml holds
\* every committed host, those with an empty path sequence too.
C32_HostWithoutPathsCommitted ==
    /\ [][PathLoopLeft =>
            /\ HasKey(config'.hosts, hostname)
            /\ config'.hosts[hostname].paths = host_config.paths
            /\ host_config.paths = history.typed]_vars
    /\ [](Saved =>
            /\ files["backup"].hosts = config.hosts
            /\ \A h \in DOMAIN config.hosts :
                  config.hosts[h].paths = history.typed_for[h])

\* C32, witness: the operator declined the first 'Add backup path' prompt of a
\* host and the file written holds that host with no path
C32_Witness ==
    /\ Saved
    /\ pc = "done"
    /\ \E h \in DOMAIN files["backup"].hosts :
          /\ history.typed_for[h] = <<>>
          /\ files["backup"].hosts[h].paths = <<>>

\* C33: in a privileged run create_systemd_service is called whatever
\* install_backup_scripts returned, and save_configurations is called after
\* both whatever they returned; without privileges neither is called and
\* save_configurations is.
C33_ServiceAndSaveRegardless ==
    backend.call = "script_stage" =>
        /\ ~backend.raised
        /\ backend.calls =
             IF is_root
             THEN <<"install_backup_scripts", "create_systemd_service",
                    "save_configurations">>
             ELSE <<"save_configurations">>
        /\ is_root => backend.scripts # "uncalled" /\ backend.service # "uncalled"

\* C33, witness: no script was installed, the timer was enabled and started
\* all the same, and save_configurations was called
C33_Witness ==
    /\ backend.call = "script_stage"
    /\ is_root
    /\ backend.scripts = "False"
    /\ backend.installed = {}
    /\ backend.service = "True"
    /\ backend.timer = "started"
    /\ backend.calls[Len(backend.calls)] = "save_configurations"

\* C33, witness of the failure of both steps: save_configurations was called
C33_WitnessBothFailed ==
    /\ backend.call = "script_stage"
    /\ is_root
    /\ backend.scripts = "False"
    /\ backend.service = "False"
    /\ backend.calls[Len(backend.calls)] = "save_configurations"

\* the dependency check of run_installer is behind the run
PastDependencyCheck ==
    \/ pc \in {"privilege", "probe"}
    \/ history.stage \notin {"start", "dependencies"}

\* C34: once the dependency check is passed HAS_YAML and HAS_REQUESTS are
\* both true and stay so: setup_influxdb is never called without the requests
\* library and save_configurations never without the YAML library.
C34_FlagsHoldPastCheck ==
    /\ PastDependencyCheck => HAS_YAML /\ HAS_REQUESTS
    /\ Called("setup_influxdb") => HAS_REQUESTS
    /\ Called("save_configurations") => HAS_YAML

\* C34, witness: both libraries were missing, the operator had them
\* installed, and the check is passed with both flags set
C34_Witness ==
    /\ history.imported = {"yaml", "requests"}
    /\ history.stage = "dependencies"
    /\ pc = "privilege"
    /\ HAS_YAML /\ HAS_REQUESTS

\* C34, witness of the later stages: the metrics store was set up and the
\* configuration saved
C34_WitnessLater ==
    /\ pc = "done"
    /\ Called("setup_influxdb")
    /\ history.post = "201"
    /\ history.saved = "True"

-----------------------------------------------------------------------------
(* The test-data generator, generate-test-data.py, as the reader of the    *)
(* metrics-store document.                                                  *)

\* generate_test_data, lines 127-129 and 190: the keys looked up under
\* 'influxdb', in the order of the lookups
GeneratorKeys == <<"url", "token", "org", "bucket">>

\* generate_test_data, lines 127-129: the keys the client is created from
ClientKeys == SubSeq(GeneratorKeys, 1, 3)

\* generate_test_data(backup_config, influx_config), lines 118-257, with a
\* metrics store that accepts what is written.  available is
\* INFLUX_AVAILABLE, the outcome of the import of lines 16-22: without the
\* client library the function returns at line 123 and looks up no key.
\* dict[key] raises KeyError at the first key that is missing: url, token
\* and org when the client is created, bucket at the first write, which is
\* in the loop over the hosts (line 190).  With no host the loop body never
\* runs and line 242 divides by total_hosts = 0 before the write of line
\* 248 looks up bucket.
GenerateTestData(available, backup_doc, influx_config) ==
    LET section == influx_config["influxdb"]
        hosts == IF HasKey(backup_doc, "hosts") THEN backup_doc["hosts"]
                 ELSE EmptyDict
        missing == {k \in DOMAIN ClientKeys : ~HasKey(section, ClientKeys[k])}
        returned == [raised |-> FALSE, exc |-> "", key |-> ""]
        keyError(key) == [raised |-> TRUE, exc |-> "KeyError", key |-> key]
    IN IF ~available THEN returned
       ELSE IF missing # {}
       THEN keyError(ClientKeys[CHOOSE k \in missing :
                                   \A j \in missing : k <= j])
       ELSE IF ~Truthy(hosts)
       THEN [raised |-> TRUE, exc |-> "ZeroDivisionError", key |-> ""]
       ELSE IF ~HasKey(section, "bucket") THEN keyError("bucket")
       ELSE returned

\* C35: every key generate_test_data looks up under 'influxdb' is in the
\* document save_configurations wrote, for every metrics-store configuration
\* that is not empty: the generator, with its client library at hand, reads
\* it without KeyError.
C35_SavedDocumentConsumable ==
    HoldsDocument("influx") /\ Truthy(files["influx"]["influxdb"]) =>
        /\ \A k \in DOMAIN GeneratorKeys :
              HasKey(files["influx"]["influxdb"], GeneratorKeys[k])
        /\ GenerateTestData(TRUE, files["backup"], files["influx"]).exc
              # "KeyError"

====
